---------------------------- MODULE Spec2Model ----------------------------
(***************************************************************************)
(* Model of the Hetzner Robot provider of lexicon                          *)
(* (src/lexicon/providers/hetzner.py).                                     *)
(*                                                                         *)
(* Python strings are sequences of one-character strings, so that the      *)
(* string operations of the provider (quoting, appending a dot, splitting  *)
(* at '/', comparing lengths) are computed and not assumed.  Python's None *)
(* is the one-element sequence None, which no string of the model equals.  *)
(***************************************************************************)
EXTENDS Integers, Sequences, FiniteSets, TLC

None == <<"None">>

Truthy(x) == x # None /\ x # <<>>

Quote == "\""
Dot == "."
Slash == "/"

TXT == <<"T", "X", "T">>
NS == <<"N", "S">>
CNAME == <<"C", "N", "A", "M", "E">>
MX == <<"M", "X">>
SRV == <<"S", "R", "V">>
LOC == <<"L", "O", "C">>

(* The zone (self.domain) the provider works on. *)
Domain == <<"e">>

-----------------------------------------------------------------------------
(* String helpers: str.endswith, str.rstrip, str.strip, str.split, str.join *)

EndsWith(s, suffix) ==
    /\ Len(s) >= Len(suffix)
    /\ SubSeq(s, Len(s) - Len(suffix) + 1, Len(s)) = suffix

RECURSIVE RStrip(_, _)
RStrip(s, ch) ==
    IF s # <<>> /\ s[Len(s)] = ch THEN RStrip(SubSeq(s, 1, Len(s) - 1), ch) ELSE s

RECURSIVE LStrip(_, _)
LStrip(s, ch) ==
    IF s # <<>> /\ s[1] = ch THEN LStrip(Tail(s), ch) ELSE s

Strip(s, ch) == RStrip(LStrip(s, ch), ch)

(* s.split(sep): the parts between the separators, at least one part. *)
RECURSIVE Split(_, _)
Split(s, sep) ==
    IF \E i \in 1..Len(s) : s[i] = sep
    THEN LET i == CHOOSE k \in 1..Len(s) :
                      s[k] = sep /\ \A j \in 1..(k - 1) : s[j] # sep
         IN  <<SubSeq(s, 1, i - 1)>> \o Split(SubSeq(s, i + 1, Len(s)), sep)
    ELSE <<s>>

(* sep.join(parts) *)
RECURSIVE Join(_, _)
Join(parts, sep) ==
    IF parts = <<>> THEN <<>>
    ELSE IF Len(parts) = 1 THEN parts[1]
    ELSE parts[1] \o <<sep>> \o Join(Tail(parts), sep)

RECURSIVE Flatten(_)
Flatten(ss) == IF ss = <<>> THEN <<>> ELSE ss[1] \o Flatten(Tail(ss))

SeqToSet(s) == {s[i] : i \in 1..Len(s)}

-----------------------------------------------------------------------------
(* The base provider's name helpers (lexicon.providers.base). *)

_full_name(record_name) ==
    LET stripped == RStrip(record_name, Dot)
    IN  IF EndsWith(stripped, Domain) THEN stripped
        ELSE stripped \o <<Dot>> \o Domain

_fqdn_name(record_name) == _full_name(record_name) \o <<Dot>>

-----------------------------------------------------------------------------
(* ContentNormalizer *)

_wellformed_content(rdtype, content) ==
    LET quoted ==
            IF rdtype \in {TXT, LOC}
            THEN LET c1 == IF content[1] # Quote THEN <<Quote>> \o content
                           ELSE content
                 IN  IF c1[Len(c1)] # Quote THEN c1 \o <<Quote>> ELSE c1
            ELSE content
    IN  IF rdtype \in {CNAME, MX, NS, SRV} /\ quoted[Len(quoted)] # Dot
        THEN _fqdn_name(quoted) ELSE quoted

_raw_content_rstrip(rdtype, content) ==
    IF rdtype \in {TXT, LOC} THEN RStrip(content, Quote) ELSE content

_raw_content(rdtype, content) ==
    IF rdtype \in {TXT, LOC} THEN Strip(content, Quote) ELSE content

-----------------------------------------------------------------------------
(* IdentifierCodec *)

Alphabet ==
    <<"/", ".", "\"", "A", "C", "E", "L", "M", "N", "O", "R", "S", "T", "V",
      "X", "a", "b", "c", "d", "e", "w", "x">>

Code(ch) == CHOOSE i \in 1..Len(Alphabet) : Alphabet[i] = ch

HexDigits ==
    <<"0", "1", "2", "3", "4", "5", "6", "7", "8", "9", "a", "b", "c", "d",
      "e", "f">>

(* Stands for sha256: a checksum of the bytes fed to it, written as seven *)
(* hexadecimal characters (the first seven of the hex digest).            *)
RECURSIVE Digest(_, _)
Digest(bytes, h) ==
    IF bytes = <<>> THEN h
    ELSE Digest(Tail(bytes), (h * 7 + Code(bytes[1])) % (16 * 16))

_build_identifier(rdtype, name, content) ==
    LET h == Digest((rdtype \o <<Slash>>) \o (name \o <<Slash>>) \o content, 0)
    IN  <<"0", "0", "0", "0", "0", HexDigits[(h \div 16) + 1],
          HexDigits[(h % 16) + 1]>>

-----------------------------------------------------------------------------
(* The zone held in self.zone['data'] (a dns.zone.Zone): the rdatasets in  *)
(* iteration order, each with its owner name, type, ttl and its rdatas in  *)
(* text form (rdata.to_text()).  An rdataset is a set: an rdata is added   *)
(* only when it is not in it yet.                                          *)

Rdataset(name, rdtype, ttl, items) ==
    [name |-> name, rdtype |-> rdtype, ttl |-> ttl, items |-> items]

FindRdataset(z, name, rdtype) ==
    IF \E i \in 1..Len(z) : z[i].name = name /\ z[i].rdtype = rdtype
    THEN CHOOSE i \in 1..Len(z) : z[i].name = name /\ z[i].rdtype = rdtype
    ELSE 0

(* zone.get_rdataset(name, rdtype, create=True): the zone with the rdataset *)
(* in it (created empty, ttl 0, when missing).                              *)
get_rdataset_create(z, name, rdtype) ==
    IF FindRdataset(z, name, rdtype) # 0 THEN z
    ELSE Append(z, Rdataset(name, rdtype, 0, <<>>))

RemoveAt(z, i) == SubSeq(z, 1, i - 1) \o SubSeq(z, i + 1, Len(z))

(* zone.delete_rdataset(name, rdtype) *)
delete_rdataset(z, name, rdtype) ==
    IF FindRdataset(z, name, rdtype) = 0 THEN z
    ELSE RemoveAt(z, FindRdataset(z, name, rdtype))

(* zone.replace_rdataset(name, replacement): the old one is dropped and the *)
(* replacement appended.                                                    *)
replace_rdataset(z, name, replacement) ==
    Append(delete_rdataset(z, name, replacement.rdtype), replacement)

(* Set.add for each rdata, in order. *)
RECURSIVE AddAll(_, _)
AddAll(items, rdatas) ==
    IF rdatas = <<>> THEN items
    ELSE AddAll(IF \E i \in 1..Len(items) : items[i] = rdatas[1]
                THEN items ELSE Append(items, rdatas[1]),
                Tail(rdatas))

(* Rdataset.update_ttl(ttl) *)
update_ttl(rrset, ttl) ==
    IF rrset.items = <<>> THEN ttl
    ELSE IF ttl < rrset.ttl THEN ttl ELSE rrset.ttl

(* dns.rdataset.from_text_list(rdclass, rdtype, ttl, text_rdatas) *)
from_text_list(name, rdtype, ttl, rdatas) ==
    Rdataset(name, rdtype, ttl, AddAll(<<>>, rdatas))

(* rrset.update(rdataset): the ttl is lowered to the other's, the rdatas    *)
(* of the other are added.                                                  *)
rdataset_update(rrset, other) ==
    [rrset EXCEPT !.ttl = update_ttl(rrset, other.ttl),
                  !.items = AddAll(rrset.items, other.items)]

(* The records of a zone as a set of <<owner, type, rdata text>>. *)
Rdatas(z) ==
    UNION {{<<z[i].name, z[i].rdtype, z[i].items[j]>> :
               j \in 1..Len(z[i].items)} : i \in 1..Len(z)}

-----------------------------------------------------------------------------
(* RecordOrchestrator: the pure part of each operation. *)

EffectiveName(cn, name) == IF Truthy(cn) THEN cn ELSE _fqdn_name(name)

ListMatches(e, cn, type, name) ==
    /\ (~Truthy(type) \/ type = e.rdtype)
    /\ (~Truthy(name) \/ EffectiveName(cn, name) = e.name)

ListContentMatches(rtype, content, rdata) ==
    ~Truthy(content) \/ _wellformed_content(rtype, content) = rdata

(* The record with its id built from the name without the final dot. *)
RecordViewShortName(e, rdata) ==
    [type |-> e.rdtype,
     name |-> _full_name(e.name),
     ttl |-> e.ttl,
     content |-> _raw_content(e.rdtype, rdata),
     id |-> _build_identifier(e.rdtype, _full_name(e.name),
                              _raw_content(e.rdtype, rdata))]

RecordView(e, rdata) ==
    [type |-> e.rdtype,
     name |-> _full_name(e.name),
     ttl |-> e.ttl,
     content |-> _raw_content(e.rdtype, rdata),
     id |-> _build_identifier(e.rdtype, e.name, _raw_content(e.rdtype, rdata))]

(* list_records without its closing of the session: the matching records   *)
(* in iteration order; z is self.zone['data'], or empty when self.zone is  *)
(* None.                                                                    *)
list_records(z, cn, type, name, content) ==
    LET rrsets == z
        Recs(e) ==
            LET sel == SelectSeq(e.items,
                         LAMBDA rd : ListContentMatches(e.rdtype, content, rd))
            IN  [k \in 1..Len(sel) |-> RecordView(e, sel[k])]
    IN  Flatten([i \in 1..Len(rrsets) |->
                    IF ListMatches(rrsets[i], cn, type, name)
                    THEN Recs(rrsets[i]) ELSE <<>>])

RECURSIVE LastWithId(_, _, _)
LastWithId(records, identifier, found) ==
    IF records = <<>> THEN found
    ELSE LastWithId(Tail(records), identifier,
                    IF records[1].id = identifier
                    THEN <<records[1].type, records[1].name \o <<Dot>>,
                           records[1].content>>
                    ELSE found)

(* parts[1] of an identifier longer than 7 characters without '/' does not *)
(* exist: IndexError.                                                      *)
ParseRaises(identifier) ==
    Len(identifier) > 7 /\ Len(Split(identifier, Slash)) < 2

(* The raw form split at every '/', the content being the third part only. *)
_parse_identifier_third(z, cn, identifier) ==
    IF Len(identifier) > 7
    THEN LET parts == Split(identifier, Slash)
         IN  <<parts[1], parts[2],
               IF Len(parts) >= 3 THEN parts[3] ELSE <<>>>>
    ELSE LastWithId(list_records(z, cn, None, None, None), identifier,
                    <<None, None, None>>)

(* _parse_identifier: <<rdtype, name, content>> *)
_parse_identifier(z, cn, identifier) ==
    IF Len(identifier) > 7
    THEN LET parts == Split(identifier, Slash)
         IN  <<parts[1], parts[2],
               Join(SubSeq(parts, 3, Len(parts)), Slash)>>
    ELSE LastWithId(list_records(z, cn, None, None, None), identifier,
                    <<None, None, None>>)

(* ttl of the rdataset a new rdata is added to (create and update). *)
NewTtl(rrset, ttl) ==
    IF rrset.ttl > 0 /\ rrset.ttl < ttl THEN rrset.ttl ELSE ttl

(* The check with the content compared as given, not normalised. *)
AlreadyExistsRaw(rrset, type, content) ==
    \E i \in 1..Len(rrset.items) : content = rrset.items[i]

(* for rdata in rrset: if wellformed(type, content) == rdata.to_text() *)
AlreadyExists(rrset, type, content) ==
    \E i \in 1..Len(rrset.items) :
        _wellformed_content(type, content) = rrset.items[i]

(* The upsert of create_record and update_record: get_rdataset(create=True) *)
(* and, unless the content is there, rrset.update(from_text(...)).          *)
Upsert(z, cn, type, name, content, ttl) ==
    LET owner == EffectiveName(cn, name)
        z1 == get_rdataset_create(z, owner, type)
        idx == FindRdataset(z1, owner, type)
        rrset == z1[idx]
    IN  IF AlreadyExists(rrset, type, content) THEN z1
        ELSE [z1 EXCEPT ![idx] =
                 rdataset_update(rrset,
                     from_text_list(owner, type, NewTtl(rrset, ttl),
                         <<_wellformed_content(type, content)>>))]

(* The removal that keeps nothing of the set. *)
KeepNothing(rrset, record) == <<>>

(* The rdatas of a set that stay when a record is removed from it. *)
KeepRdatas(rrset, record) ==
    SelectSeq(rrset.items,
              LAMBDA rd : _wellformed_content(record.type, record.content) # rd)

(* One round of the removal loop of update_record and delete_record. *)
RemoveRecord(z, record) ==
    LET owner == record.name \o <<Dot>>
        rrset == z[FindRdataset(z, owner, record.type)]
        keep == KeepRdatas(rrset, record)
    IN  IF keep # <<>>
        THEN replace_rdataset(z, owner,
                 from_text_list(owner, rrset.rdtype, record.ttl, keep))
        ELSE delete_rdataset(z, owner, record.type)

RECURSIVE RemoveRecords(_, _)
RemoveRecords(z, records) ==
    IF records = <<>> THEN z
    ELSE RemoveRecords(RemoveRecord(z, records[1]), Tail(records))

(* The removal loop without the check. *)
NeverAmbiguous(z, record, delete_content) == FALSE

(* update_record's check in the removal loop: rdatas stay and no content   *)
(* was there to select the record.                                         *)
AmbiguousAt(z, record, delete_content) ==
    /\ delete_content = None
    /\ KeepRdatas(z[FindRdataset(z, record.name \o <<Dot>>, record.type)],
                  record) # <<>>

(* The removal loop of update_record: the zone after it, or "ambiguous"    *)
(* with the zone as it is when the loop returns early.                     *)
RECURSIVE UpdateRemove(_, _, _)
UpdateRemove(z, records, delete_content) ==
    IF records = <<>> THEN [ambiguous |-> FALSE, zone |-> z]
    ELSE IF AmbiguousAt(z, records[1], delete_content)
    THEN [ambiguous |-> TRUE, zone |-> z]
    ELSE UpdateRemove(RemoveRecord(z, records[1]), Tail(records),
                      delete_content)

-----------------------------------------------------------------------------
(* DnsResolver: the CNAME records the resolver answers with.  A linear     *)
(* environment of n hops maps the queried name to Target(1), Target(1) to  *)
(* Target(2), ... and Target(n) to nothing; a cyclic one of period n maps  *)
(* the last of n names back to the queried name.                           *)

TargetLabels ==
    <<"c", "d", "f", "g", "h", "i", "j", "k", "l", "m", "n", "o", "p", "q",
      "r", "s">>

Target(i) == <<TargetLabels[i], Dot>> \o Domain \o <<Dot>>

ChainPosition(name0, qname) ==
    IF qname = name0 THEN 0
    ELSE CHOOSE i \in 1..Len(TargetLabels) : Target(i) = qname

(* _dns_lookup(qname, 'CNAME'): rrset[0].to_text(), or None for no answer. *)
CnameLookup(env, name0, qname) ==
    LET pos == ChainPosition(name0, qname)
    IN  IF env.kind = "linear"
        THEN IF pos < env.n THEN Target(pos + 1) ELSE None
        ELSE IF pos < env.n - 1 THEN Target(pos + 1) ELSE name0

max_concats == 10

max_retry == 20

(* for retry in range(10) *)
RequestAttempts == 10

(* The retry that raises, were the loop given up after seven tries. *)
LastRetryEarly == 3 + 3

(* if retry == 9: raise *)
LastRetry == 9

(* _concatenate: the name handed to _dns_cname and whether the CNAME       *)
(* lookup is enabled.  The zone is not loaded yet: _parse_identifier of a  *)
(* hash identifier lists no record.                                        *)
_concatenate(opt) ==
    LET parsed == IF Truthy(opt.identifier)
                  THEN _parse_identifier(<<>>, None, opt.identifier)
                  ELSE <<opt.type, opt.name, None>>
        rdtype == parsed[1]
        name == parsed[2]
        name_update == IF Truthy(opt.identifier)
                       THEN IF Truthy(opt.name) THEN _fqdn_name(opt.name)
                            ELSE name
                       ELSE opt.name
        enabled == /\ opt.action # "list"
                   /\ Truthy(rdtype)
                   /\ rdtype # CNAME
                   /\ Truthy(name)
                   /\ opt.concatenate = "yes"
                   /\ (opt.action # "update" \/ name = name_update)
    IN  [name |-> name, concatenate |-> enabled]

(* post_response = {'de_DE': 'Vielen Dank', 'en_GB': 'Thank you for'} *)
post_response ==
    [l \in {"de_DE", "en_GB"} |->
        IF l = "de_DE" THEN "Vielen Dank" ELSE "Thank you for"]

(* The phrases of the backend's answer to a zone update: the confirmation  *)
(* in the account's language when it took the zone, the update form again  *)
(* when it did not.                                                        *)
ResponseText(accepted, lang) ==
    IF ~accepted THEN {"form"}
    ELSE IF lang \in DOMAIN post_response THEN {post_response[lang]}
    ELSE {"Merci"}

-----------------------------------------------------------------------------
(* The operations' plans: what create_record, update_record and            *)
(* delete_record decide and do to the zone before their first HTTP call.   *)

create_record(z, cn, type, name, content, ttl) ==
    IF type = None \/ name = None \/ content = None
    THEN [outcome |-> "no_spec", zone |-> z]
    ELSE LET owner == EffectiveName(cn, name)
             z1 == get_rdataset_create(z, owner, type)
         IN  IF AlreadyExists(z1[FindRdataset(z1, owner, type)], type, content)
             THEN [outcome |-> "exists", zone |-> z1]
             ELSE [outcome |-> "submit",
                   zone |-> Upsert(z, cn, type, name, content, ttl)]

update_record(z, cn, identifier, type, name, content, ttl) ==
    LET parsed == IF Truthy(identifier)
                  THEN _parse_identifier(z, cn, identifier)
                  ELSE <<type, name, None>>
        byId == Truthy(identifier)
        found == Truthy(parsed[1]) /\ Truthy(parsed[2]) /\ Truthy(parsed[3])
        type1 == IF byId /\ ~Truthy(type) THEN parsed[1] ELSE type
        name1 == IF byId /\ ~Truthy(name) THEN parsed[2] ELSE name
        content1 == IF byId /\ ~Truthy(content) THEN parsed[3] ELSE content
    IN  IF byId /\ ~found THEN [outcome |-> "not_exist", zone |-> z]
        ELSE IF ~byId /\ ~(Truthy(type) /\ Truthy(name) /\ Truthy(content))
        THEN [outcome |-> "no_spec", zone |-> z]
        ELSE LET delete_records ==
                     list_records(z, cn, parsed[1], parsed[2], parsed[3])
                 removed == UpdateRemove(z, delete_records, parsed[3])
             IN  IF delete_records = <<>>
                 THEN [outcome |-> "no_match", zone |-> z]
                 ELSE IF removed.ambiguous
                 THEN [outcome |-> "ambiguous", zone |-> removed.zone]
                 ELSE [outcome |-> "submit",
                       zone |-> Upsert(removed.zone, cn, type1, name1,
                                       content1, ttl)]

delete_record(z, cn, identifier, type, name, content) ==
    LET parsed == IF Truthy(identifier)
                  THEN _parse_identifier(z, cn, identifier)
                  ELSE <<type, name, content>>
        delete_records ==
            list_records(z, cn, parsed[1], parsed[2], parsed[3])
    IN  IF Truthy(identifier)
           /\ (parsed[1] = None \/ parsed[2] = None \/ parsed[3] = None)
        THEN [outcome |-> "not_exist", zone |-> z]
        ELSE IF delete_records = <<>>
        THEN [outcome |-> "no_match", zone |-> z]
        ELSE [outcome |-> "submit", zone |-> RemoveRecords(z, delete_records)]

-----------------------------------------------------------------------------
(* The provider object and its surroundings. *)

VARIABLES
    options,       \* the lexicon and provider options of this run
    dns,           \* the CNAME records in the DNS
    backend,       \* the zone as the Hetzner Robot holds it
    pc,            \* where the run is
    dname,         \* _dns_cname: name
    cname,         \* self.cname
    concat,        \* _dns_cname: concat
    session,       \* self.session: "null" or "open"
    zone,          \* self.zone: loaded or not, and zone['data']
    page,          \* _get_zone_id: page
    nzones,        \* _get_zone_id: len(zones)
    retry,         \* _request: retry
    slept,         \* seconds slept in the running _request
    language,      \* _post_zone: language
    synced_change, \* the value of _post_zone()
    prop_retry,    \* _propagated: retry
    after,         \* what the caller of _close_session does next
    result,        \* the value the operation returned
    error,         \* the exception the run ended with
    failedCall,    \* the HTTP call that raised it
    attempts,      \* how often that call had been sent when it raised
    runs,          \* the runs of the provider so far, this one included
    invoked,       \* create/update/delete/list_records was entered
    zone0,         \* zone['data'] when the operation was entered
    closeCalls,    \* calls of _close_session by the operation
    posts,         \* zone-update POSTs sent
    lookups,       \* DNS lookups of _propagated
    check,         \* _open_session: the response to the login_check POST
    response,      \* _open_session: response
    propagation,   \* the value _propagated returned
    waited,        \* the seconds _propagated has slept
    body,          \* _post_zone: response.text
    arg,           \* the arguments of a helper called on its own
    out,           \* what that call returned or raised
    zones,         \* _get_zone_id: the zone names in zones
    last_count,    \* _get_zone_id: last_count
    qzone_id,      \* _get_zone_id: qzone_id
    requested,     \* the listing pages requested, in order
    providers,     \* the provider objects at work side by side
    robot,         \* the zones the Hetzner Robot holds, by zone name
    robot0,        \* those zones before any provider ran
    submits        \* the zone-update POSTs of the providers, in order

vars ==
    <<options, dns, backend, pc, dname, cname, concat, session, zone, page,
      nzones, retry, slept, language, synced_change, prop_retry, after,
      result, error, failedCall, attempts, runs, invoked, zone0, closeCalls,
      posts, lookups, check, response, propagation, waited, body, arg,
      out, zones, last_count, qzone_id, requested, providers, robot,
      robot0, submits>>

robotVars == <<providers, robot, robot0, submits>>
envVars == <<options, dns, runs, arg, out, robotVars>>
loginVars == <<check, response>>
propVars == <<propagation, waited>>
authVars == <<dname, cname, concat>>
scanVars == <<zones, last_count, qzone_id, requested>>
pageVars == <<page, nzones, scanVars>>
opVars == <<invoked, zone0>>

(* The pcs at which a _request (self._get / self._post) is under way. *)
HttpCalls == {"get_zone_id", "get_zone", "get_language", "post_zone", "logout"}

Return(value) == [kind |-> "return", value |-> value]
Raise(exception) == [kind |-> "raise", value |-> exception]
NoAfter == [kind |-> "none", value |-> "none"]

(* The caller goes on after _close_session has returned. *)
Finish(next) ==
    IF next.kind = "return"
    THEN pc' = "done" /\ result' = next.value /\ error' = error
    ELSE pc' = "raised" /\ error' = next.value /\ result' = result

(* A call of _close_session on an open session: outside live tests the     *)
(* logout GET is sent next, in live tests it returns at once.              *)
CloseSession(next) ==
    /\ closeCalls' = closeCalls + 1
    /\ IF options.live_tests = None
       THEN /\ pc' = "logout"
            /\ retry' = 0
            /\ slept' = 0
            /\ after' = next
            /\ UNCHANGED <<result, error>>
       ELSE /\ Finish(next)
            /\ UNCHANGED <<retry, slept, after>>

(* A call of _close_session while self.session is None: in live tests it   *)
(* returns, otherwise self.session.request raises AttributeError.          *)
CloseNullSession(next) ==
    IF options.live_tests = None THEN Raise("AttributeError") ELSE next

-----------------------------------------------------------------------------
(* authenticate *)

(* list_records that never closes the session. *)
ListClosesNever(action) == FALSE

(* if self._get_lexicon_option('action') == 'list': self._close_session() *)
ListCloses(action) == action = "list"

(* _concatenate and the entry of _dns_cname. *)
Authenticate ==
    /\ pc = "authenticate"
    /\ LET c == _concatenate(options)
           listed == /\ Truthy(options.identifier)
                     /\ Len(options.identifier) <= 7
                     /\ ListCloses(options.action)
       IN  IF Truthy(options.identifier) /\ ParseRaises(options.identifier)
           THEN /\ pc' = "raised"
                /\ error' = "IndexError"
                /\ UNCHANGED <<authVars, closeCalls>>
           ELSE IF listed /\ options.live_tests = None
           THEN /\ pc' = "raised"
                /\ error' = "AttributeError"
                /\ closeCalls' = closeCalls + 1
                /\ UNCHANGED authVars
           ELSE /\ closeCalls' = IF listed THEN closeCalls + 1 ELSE closeCalls
                /\ error' = error
                /\ IF c.concatenate
                   THEN /\ pc' = "dns_cname"
                        /\ dname' = _fqdn_name(c.name)
                        /\ UNCHANGED <<cname, concat>>
                   ELSE /\ pc' = "open_session"
                        /\ UNCHANGED authVars
    /\ UNCHANGED <<envVars, loginVars, propVars, body, backend, session, zone,
                   pageVars, retry, slept, language, synced_change,
                   prop_retry, after, result, failedCall, attempts, opVars,
                   posts, lookups>>

(* One round of the loop of _dns_cname. *)
DnsCname ==
    /\ pc = "dns_cname"
    /\ IF concat >= max_concats
       THEN /\ closeCalls' = closeCalls + 1
            /\ pc' = "raised"
            /\ error' = CloseNullSession(Raise("AssertionError")).value
            /\ UNCHANGED authVars
       ELSE LET qname == IF Truthy(cname) THEN cname ELSE dname
                answer == CnameLookup(dns, dname, qname)
            IN  /\ IF answer # None
                   THEN /\ concat' = concat + 1
                        /\ cname' = answer
                        /\ pc' = pc
                   ELSE /\ pc' = "open_session"
                        /\ UNCHANGED <<cname, concat>>
                /\ UNCHANGED <<dname, closeCalls, error>>
    /\ UNCHANGED <<envVars, loginVars, propVars, body, backend, session, zone,
                   pageVars, retry, slept, language, synced_change,
                   prop_retry, after, result, failedCall, attempts, opVars,
                   posts, lookups>>

(* The responses a request of _open_session can get: the page it landed on *)
(* (the account's masterdata page, a page of the API host, a page of the   *)
(* accounts host whose URL carries the API endpoint, or the login page)    *)
(* and the status.                                                         *)
Responses ==
    [url : {"masterdata", "api", "login_api", "login"}, status : {200, 500}]

NoResponse == [url |-> "none", status |-> 0]

(* '{}/account/masterdata'.format(self.auth_endpoint) == response.url *)
IsMasterdata(r) == r.url = "masterdata"

(* self.api_endpoint in response.url *)
HasApiEndpoint(r) == r.url \in {"api", "login_api"}

(* _open_session: the GET of /login and the POST to /login_check, each     *)
(* sent once on the new session.                                           *)
OpenSession ==
    /\ pc = "open_session"
    /\ \/ \E call \in {"login", "login_check"} :
             /\ pc' = "raised"
             /\ error' = "ConnectionError"
             /\ failedCall' = call
             /\ attempts' = 1
             /\ UNCHANGED loginVars
       \/ \E r \in Responses :
             /\ check' = r
             /\ response' = r
             /\ pc' = IF IsMasterdata(r) /\ r.status = 200
                      THEN "api_get" ELSE "session_check"
             /\ UNCHANGED <<error, failedCall, attempts>>
    /\ UNCHANGED <<envVars, propVars, body, backend, authVars, session, zone,
                   pageVars, retry, slept, language, synced_change,
                   prop_retry, after, result, opVars, closeCalls, posts,
                   lookups>>

(* _open_session: the GET to the API host after a login that landed on the *)
(* masterdata page.                                                        *)
ApiGet ==
    /\ pc = "api_get"
    /\ \/ /\ pc' = "raised"
          /\ error' = "ConnectionError"
          /\ failedCall' = "api"
          /\ attempts' = 1
          /\ UNCHANGED response
       \/ \E r \in Responses :
             /\ response' = r
             /\ pc' = "session_check"
             /\ UNCHANGED <<error, failedCall, attempts>>
    /\ UNCHANGED <<envVars, propVars, body, backend, authVars, session, zone,
                   pageVars, retry, slept, language, synced_change,
                   prop_retry, after, result, opVars, closeCalls, posts,
                   lookups, check>>

(* _open_session: the test of the last response, and authenticate storing  *)
(* the session returned.                                                   *)
SessionCheck ==
    /\ pc = "session_check"
    /\ IF ~HasApiEndpoint(response) \/ response.status # 200
       THEN /\ pc' = "raised"
            /\ error' = "AssertionError"
            /\ UNCHANGED <<session, retry, pageVars>>
       ELSE /\ session' = "open"
            /\ pc' = "get_zone_id"
            /\ error' = error
            /\ retry' = 0
            /\ page' = 1
            /\ nzones' = 0
            /\ UNCHANGED scanVars
    /\ check' = NoResponse
    /\ response' = NoResponse
    /\ UNCHANGED <<envVars, propVars, body, backend, authVars, zone, slept,
                   language, synced_change, prop_retry, after, result,
                   failedCall, attempts, opVars, closeCalls, posts, lookups>>

-----------------------------------------------------------------------------
(* _request: what a call other than a success can do. *)

(* requests.exceptions.ConnectionError: sleep a second and try again, or   *)
(* raise when it was the last try.                                         *)
RequestConnectionError ==
    /\ pc \in HttpCalls
    /\ IF retry = LastRetry
       THEN /\ pc' = "raised"
            /\ error' = "ConnectionError"
            /\ failedCall' = pc
            /\ attempts' = retry + 1
            /\ UNCHANGED <<retry, slept>>
       ELSE /\ retry < RequestAttempts - 1
            /\ retry' = retry + 1
            /\ slept' = slept + 1
            /\ UNCHANGED <<pc, error, failedCall, attempts>>
    /\ UNCHANGED <<envVars, loginVars, propVars, body, backend, authVars,
                   session, zone, pageVars, language, synced_change,
                   prop_retry, after, result, opVars, closeCalls, posts,
                   lookups>>

(* response.raise_for_status() raises HTTPError: not caught. *)
RequestHTTPError ==
    /\ pc \in HttpCalls
    /\ pc' = "raised"
    /\ error' = "HTTPError"
    /\ failedCall' = pc
    /\ attempts' = retry + 1
    /\ UNCHANGED <<envVars, loginVars, propVars, body, backend, authVars,
                   session, zone, pageVars, retry, slept, language,
                   synced_change, prop_retry, after, result, opVars,
                   closeCalls, posts, lookups>>

-----------------------------------------------------------------------------
(* _get_zone_id and _get_zone *)

MaxZones == 2

(* One listing page has come: it names the zone, or zones not seen yet,    *)
(* or nothing new.                                                         *)
GetZoneId ==
    /\ pc = "get_zone_id"
    /\ \/ /\ pc' = "get_zone"
          /\ page' = 1
          /\ nzones' = 0
          /\ retry' = 0
          /\ slept' = 0
          /\ UNCHANGED <<scanVars, closeCalls, after, result, error>>
       \/ /\ nzones < MaxZones
          /\ nzones' = nzones + 1
          /\ page' = page + 1
          /\ retry' = 0
          /\ slept' = 0
          /\ UNCHANGED <<scanVars, pc, closeCalls, after, result, error>>
       \/ /\ CloseSession(Raise("AssertionError"))
          /\ UNCHANGED pageVars
    /\ UNCHANGED <<envVars, loginVars, propVars, body, backend, authVars,
                   session, zone, language, synced_change, prop_retry,
                   failedCall, attempts, opVars, posts, lookups>>

GetZone ==
    /\ pc = "get_zone"
    /\ zone' = [loaded |-> TRUE, data |-> backend]
    /\ pc' = "ready"
    /\ UNCHANGED <<envVars, loginVars, propVars, body, backend, authVars,
                   session, pageVars, retry, slept, language, synced_change,
                   prop_retry, after, result, error, failedCall, attempts,
                   opVars, closeCalls, posts, lookups>>

-----------------------------------------------------------------------------
(* The operations, up to their first HTTP call. *)

ZoneData == IF zone.loaded THEN zone.data ELSE <<>>

(* self._post_zone() is entered: the language is asked for first. *)
EnterPostZone ==
    /\ pc' = "get_language"
    /\ retry' = 0
    /\ slept' = 0
    /\ UNCHANGED <<closeCalls, after, result, error>>

CreateRecord ==
    /\ pc = "ready"
    /\ options.action = "create"
    /\ LET plan == create_record(ZoneData, cname, options.type, options.name,
                                 options.content, options.ttl)
       IN  /\ zone' = [zone EXCEPT !.data = plan.zone]
           /\ IF plan.outcome = "submit" THEN EnterPostZone
              ELSE CloseSession(Return(IF plan.outcome = "exists"
                                       THEN "True" ELSE "False"))
    /\ invoked' = TRUE
    /\ zone0' = ZoneData
    /\ UNCHANGED <<envVars, loginVars, propVars, body, backend, authVars,
                   session, pageVars, language, synced_change, prop_retry,
                   failedCall, attempts, posts, lookups>>

UpdateRecord ==
    /\ pc = "ready"
    /\ options.action = "update"
    /\ LET plan == update_record(ZoneData, cname, options.identifier,
                                 options.type, options.name, options.content,
                                 options.ttl)
       IN  /\ zone' = [zone EXCEPT !.data = plan.zone]
           /\ IF plan.outcome = "submit" THEN EnterPostZone
              ELSE CloseSession(Return("False"))
    /\ invoked' = TRUE
    /\ zone0' = ZoneData
    /\ UNCHANGED <<envVars, loginVars, propVars, body, backend, authVars,
                   session, pageVars, language, synced_change, prop_retry,
                   failedCall, attempts, posts, lookups>>

DeleteRecord ==
    /\ pc = "ready"
    /\ options.action = "delete"
    /\ LET plan == delete_record(ZoneData, cname, options.identifier,
                                 options.type, options.name, options.content)
       IN  /\ zone' = [zone EXCEPT !.data = plan.zone]
           /\ IF plan.outcome = "submit" THEN EnterPostZone
              ELSE CloseSession(Return("True"))
    /\ invoked' = TRUE
    /\ zone0' = ZoneData
    /\ UNCHANGED <<envVars, loginVars, propVars, body, backend, authVars,
                   session, pageVars, language, synced_change, prop_retry,
                   failedCall, attempts, posts, lookups>>

(* list_records as the 'list' action: the session is closed. *)
ListRecords ==
    /\ pc = "ready"
    /\ options.action = "list"
    /\ IF ListCloses(options.action)
       THEN CloseSession(Return("records"))
       ELSE /\ Finish(Return("records"))
            /\ UNCHANGED <<closeCalls, retry, slept, after>>
    /\ invoked' = TRUE
    /\ zone0' = ZoneData
    /\ UNCHANGED <<envVars, loginVars, propVars, body, backend, authVars,
                   session, zone, pageVars, language, synced_change,
                   prop_retry, failedCall, attempts, posts, lookups>>

-----------------------------------------------------------------------------
(* _post_zone, _propagated and _close_session *)

Languages == {"de_DE", "en_GB", "fr_FR"}

(* _get_language: the answer of /preferences/culture. *)
GetLanguage ==
    /\ pc = "get_language"
    /\ \E l \in Languages : language' = l
    /\ pc' = "post_zone"
    /\ retry' = 0
    /\ slept' = 0
    /\ UNCHANGED <<envVars, loginVars, propVars, body, backend, authVars,
                   session, zone, pageVars, synced_change, prop_retry, after,
                   result, error, failedCall, attempts, opVars, closeCalls,
                   posts, lookups>>

(* The propagation check after every submit of every operation. *)
AlwaysChecksPropagation(action, synced) == TRUE

(* if synced_change: self._propagated(...) in create_record and            *)
(* update_record; delete_record closes the session next.                   *)
ChecksPropagation(action, synced) ==
    action \in {"create", "update"} /\ synced

(* A response that passes for the confirmation whatever it says. *)
ConfirmsAlways(lang, text) == TRUE

(* post_response[language] in response.text *)
Confirms(lang, text) == post_response[lang] = text

(* The answer to the zone-update POST has come, and with it the rest of    *)
(* _post_zone and the caller's next step.                                  *)
PostZone ==
    /\ pc = "post_zone"
    /\ posts' = posts + 1
    /\ \E accepted \in BOOLEAN :
          /\ backend' = IF accepted THEN ZoneData ELSE backend
          /\ \E text \in ResponseText(accepted, language) :
                /\ body' = text
                /\ IF language \notin DOMAIN post_response
                   THEN /\ pc' = "raised"
                        /\ error' = "KeyError"
                        /\ UNCHANGED <<synced_change, closeCalls, after,
                                       result, retry, slept>>
                   ELSE LET synced == Confirms(language, text)
                        IN  /\ synced_change' =
                                   IF synced THEN "True" ELSE "False"
                            /\ IF ChecksPropagation(options.action, synced)
                               THEN /\ pc' = "propagated"
                                    /\ UNCHANGED <<closeCalls, after, result,
                                                   error, retry, slept>>
                               ELSE CloseSession(Return(synced_change'))
    /\ UNCHANGED <<envVars, loginVars, propVars, authVars, session, zone,
                   pageVars, language, prop_retry, failedCall, attempts,
                   opVars, lookups>>

(* The value of _propagated returned in place of the submit's. *)
ReturnPropagated(synced, propagated) == propagated

(* The value create_record and update_record return after _propagated. *)
ReturnValue(synced, propagated) == synced

(* The loop of _propagated with one round more. *)
MoreRetriesThanMax(r) == r <= max_retry

(* while retry < max_retry *)
MoreRetries(r) == r < max_retry

(* _propagated: it returns False at once when the option is off; else one  *)
(* round of its loop: a DNS lookup that holds the content, or does not and  *)
(* is followed by a sleep of 30 seconds.                                   *)
Propagated ==
    /\ pc = "propagated"
    /\ IF options.propagated # "yes"
       THEN /\ propagation' = "False"
            /\ CloseSession(Return(ReturnValue(synced_change, "False")))
            /\ UNCHANGED <<prop_retry, lookups, waited>>
       ELSE /\ lookups' = lookups + 1
            /\ \/ /\ propagation' = "True"
                  /\ CloseSession(Return(ReturnValue(synced_change, "True")))
                  /\ UNCHANGED <<prop_retry, waited>>
               \/ /\ prop_retry' = prop_retry + 1
                  /\ waited' = waited + 30
                  /\ IF MoreRetries(prop_retry + 1)
                     THEN UNCHANGED <<pc, closeCalls, after, result, error,
                                      retry, slept, propagation>>
                     ELSE /\ propagation' = "False"
                          /\ CloseSession(
                                 Return(ReturnValue(synced_change, "False")))
    /\ UNCHANGED <<envVars, loginVars, body, backend, authVars, session, zone,
                   pageVars, language, synced_change, failedCall, attempts,
                   opVars, posts>>

(* The logout GET of _close_session has been answered. *)
Logout ==
    /\ pc = "logout"
    /\ session' = "null"
    /\ Finish(after)
    /\ UNCHANGED <<envVars, loginVars, propVars, body, backend, authVars,
                   zone, pageVars, retry, slept, language, synced_change,
                   prop_retry, after, failedCall, attempts, opVars,
                   closeCalls, posts, lookups>>

-----------------------------------------------------------------------------
(* The runs checked: options, DNS and backend zone a run starts with. *)

NameW == <<"w">>
OwnerW == _fqdn_name(NameW)
OwnerC == Target(1)
ContentA == <<"a">>
ContentB == <<"b">>

RawIdentifier(type, name, content) ==
    type \o <<Slash>> \o name \o <<Slash>> \o content

Identifiers ==
    {_build_identifier(TXT, OwnerW, ContentA),
     <<"f", "f", "f", "f", "f", "f", "f">>,
     RawIdentifier(TXT, OwnerW, ContentA),
     RawIdentifier(TXT, OwnerW, ContentB),
     RawIdentifier(TXT, OwnerW, <<>>)}

LiveTests == {None, <<"t", "r", "u", "e">>}

AllOptions ==
    [action : {"create", "update", "delete", "list"},
     identifier : {None} \cup Identifiers,
     type : {None, TXT, NS},
     name : {None, NameW},
     content : {None, ContentA, ContentB},
     ttl : {3},
     concatenate : {"yes", "no"},
     propagated : {"yes", "no"},
     live_tests : LiveTests]

(* create and list take no identifier; delete with an identifier takes     *)
(* type, name and content from it.                                         *)
Options ==
    {o \in AllOptions :
        /\ o.action \in {"create", "list"} => o.identifier = None
        /\ (o.action = "delete" /\ o.identifier # None)
               => (o.type = None /\ o.name = None /\ o.content = None)}

Linear(n) == [kind |-> "linear", n |-> n]
Cyclic(n) == [kind |-> "cyclic", n |-> n]

TxtA == _wellformed_content(TXT, ContentA)
TxtB == _wellformed_content(TXT, ContentB)
NsA == _wellformed_content(NS, ContentA)

Zones ==
    {<<>>,
     <<Rdataset(OwnerW, TXT, 2, <<TxtA>>)>>,
     <<Rdataset(OwnerW, TXT, 5, <<TxtA, TxtB>>),
       Rdataset(OwnerC, TXT, 3, <<TxtB>>)>>,
     <<Rdataset(OwnerW, NS, 3, <<NsA>>),
       Rdataset(OwnerC, TXT, 2, <<TxtB, TxtA>>),
       Rdataset(OwnerW, TXT, 3, <<TxtB>>)>>}

(* The provider after __init__, in one of the given surroundings. *)
Fresh ==
    /\ dname = None
    /\ cname = None
    /\ concat = 0
    /\ session = "null"
    /\ zone = [loaded |-> FALSE, data |-> <<>>]
    /\ page = 1
    /\ nzones = 0
    /\ retry = 0
    /\ slept = 0
    /\ language = "none"
    /\ synced_change = "none"
    /\ prop_retry = 0
    /\ after = NoAfter
    /\ result = "none"
    /\ error = "none"
    /\ failedCall = "none"
    /\ attempts = 0
    /\ runs = 1
    /\ invoked = FALSE
    /\ zone0 = <<>>
    /\ closeCalls = 0
    /\ posts = 0
    /\ lookups = 0
    /\ check = NoResponse
    /\ response = NoResponse
    /\ propagation = "none"
    /\ waited = 0
    /\ body = "none"
    /\ zones = {}
    /\ last_count = -1
    /\ qzone_id = None
    /\ requested = <<>>

(* No other provider is at work. *)
Alone ==
    /\ providers = <<>>
    /\ robot = <<>>
    /\ robot0 = <<>>
    /\ submits = <<>>

InitIn(optionSet, dnsSet, zoneSet) ==
    /\ Alone
    /\ options \in optionSet
    /\ dns \in dnsSet
    /\ backend \in zoneSet
    /\ pc = "authenticate"
    /\ arg = <<>>
    /\ out = <<>>
    /\ Fresh

Init == InitIn(Options, {Linear(0), Linear(1)}, Zones)

Next ==
    \/ Authenticate
    \/ DnsCname
    \/ OpenSession
    \/ ApiGet
    \/ SessionCheck
    \/ RequestHTTPError
    \/ GetZoneId
    \/ GetZone
    \/ CreateRecord
    \/ UpdateRecord
    \/ DeleteRecord
    \/ ListRecords
    \/ GetLanguage
    \/ PostZone
    \/ Propagated
    \/ Logout

Spec == Init /\ [][Next]_vars

-----------------------------------------------------------------------------
(* Runs of create_record one after the other on the same backend zone:     *)
(* each run is a new provider object that authenticates and loads the zone *)
(* as the run before left it.                                              *)

MaxRuns == 2

CreateOptions ==
    {o \in Options :
        /\ o.action = "create"
        /\ o.type # None /\ o.name # None /\ o.content # None
        /\ o.live_tests = None}

NewRun ==
    /\ pc \in {"done", "raised"}
    /\ runs < MaxRuns
    /\ runs' = runs + 1
    /\ options' \in CreateOptions
    /\ pc' = "authenticate"
    /\ dname' = None
    /\ cname' = None
    /\ concat' = 0
    /\ session' = "null"
    /\ zone' = [loaded |-> FALSE, data |-> <<>>]
    /\ page' = 1
    /\ nzones' = 0
    /\ retry' = 0
    /\ slept' = 0
    /\ language' = "none"
    /\ synced_change' = "none"
    /\ prop_retry' = 0
    /\ after' = NoAfter
    /\ result' = "none"
    /\ error' = "none"
    /\ failedCall' = "none"
    /\ attempts' = 0
    /\ invoked' = FALSE
    /\ zone0' = <<>>
    /\ closeCalls' = 0
    /\ posts' = 0
    /\ lookups' = 0
    /\ check' = NoResponse
    /\ response' = NoResponse
    /\ propagation' = "none"
    /\ waited' = 0
    /\ body' = "none"
    /\ UNCHANGED <<dns, backend, arg, out, scanVars, robotVars>>

InitCreate == InitIn(CreateOptions, {Linear(1)}, Zones)

NextCreate ==
    \/ Authenticate
    \/ DnsCname
    \/ OpenSession
    \/ ApiGet
    \/ SessionCheck
    \/ RequestHTTPError
    \/ GetZoneId
    \/ GetZone
    \/ CreateRecord
    \/ GetLanguage
    \/ PostZone
    \/ Propagated
    \/ Logout
    \/ NewRun

SpecCreate == InitCreate /\ [][NextCreate]_vars

-----------------------------------------------------------------------------
(* Runs in which the connection fails: every request of _request, and the  *)
(* requests of _open_session, can end in a ConnectionError.                *)

RequestOptions ==
    {o \in Options :
        /\ o.identifier = None
        /\ o.type = TXT /\ o.name = NameW /\ o.content = ContentB
        /\ o.propagated = "no"
        /\ o.live_tests = None}

InitRequest == InitIn(RequestOptions, {Linear(1)}, Zones)

NextRequest ==
    \/ Authenticate
    \/ DnsCname
    \/ OpenSession
    \/ ApiGet
    \/ SessionCheck
    \/ RequestConnectionError
    \/ RequestHTTPError
    \/ GetZoneId
    \/ GetZone
    \/ CreateRecord
    \/ UpdateRecord
    \/ DeleteRecord
    \/ ListRecords
    \/ GetLanguage
    \/ PostZone
    \/ Propagated
    \/ Logout

SpecRequest == InitRequest /\ [][NextRequest]_vars

-----------------------------------------------------------------------------
(* authenticate with the CNAME lookup enabled, over CNAME chains of every   *)
(* length up to MaxChain and over cyclic ones.                             *)

MaxChain == 12

CnameOptions ==
    {o \in Options :
        /\ o.action \in {"create", "delete"}
        /\ o.identifier = None
        /\ o.type = TXT /\ o.name = NameW /\ o.content = ContentA
        /\ o.concatenate = "yes"
        /\ o.propagated = "no"}

Chains ==
    {Linear(n) : n \in 0..MaxChain} \cup {Cyclic(1), Cyclic(2), Cyclic(3)}

InitCname == InitIn(CnameOptions, Chains, {<<>>})

NextCname ==
    \/ Authenticate
    \/ DnsCname

SpecCname == InitCname /\ [][NextCname]_vars

-----------------------------------------------------------------------------
(* update_record and delete_record given the identifier of a record of the *)
(* zone, in its hash form and in its raw form; one owner name has a '/'.   *)

OwnerS == <<"x", "/", "w", ".", "e", ".">>

IdentifierZones ==
    {<<Rdataset(OwnerW, TXT, 3, <<TxtA, TxtB>>),
       Rdataset(OwnerC, TXT, 3, <<TxtA>>)>>,
     <<Rdataset(OwnerS, TXT, 3, <<TxtA>>),
       Rdataset(OwnerW, TXT, 3, <<TxtA, TxtB>>)>>}

(* The two forms of the identifier of an rdata <<owner, type, text>>:      *)
(* record['id'], and type '/' name './' content of the listed record.      *)
HashOf(rd) == _build_identifier(rd[2], rd[1], _raw_content(rd[2], rd[3]))

RawOf(rd) ==
    RawIdentifier(rd[2], _full_name(rd[1]) \o <<Dot>>,
                  _raw_content(rd[2], rd[3]))

IdentifierOptions ==
    LET ids == UNION {{HashOf(rd), RawOf(rd)} :
                         rd \in UNION {Rdatas(z) : z \in IdentifierZones}}
    IN  {o \in Options :
            /\ o.propagated = "no"
            /\ o.live_tests = None
            /\ \/ /\ o.action \in {"update", "delete"}
                  /\ o.identifier \in ids
                  /\ o.type = None /\ o.name = None
                  /\ o.action = "update" => o.content = ContentB
               \/ /\ o.action \in {"create", "list"}
                  /\ o.type = TXT /\ o.name = NameW /\ o.content = ContentA
                  /\ o.concatenate = "no"}

InitIdentifier ==
    InitIn(IdentifierOptions, {Linear(0), Linear(1)}, IdentifierZones)

NextIdentifier ==
    \/ Authenticate
    \/ DnsCname
    \/ OpenSession
    \/ ApiGet
    \/ SessionCheck
    \/ RequestHTTPError
    \/ GetZoneId
    \/ GetZone
    \/ CreateRecord
    \/ UpdateRecord
    \/ DeleteRecord
    \/ ListRecords
    \/ GetLanguage
    \/ PostZone
    \/ Propagated
    \/ Logout

SpecIdentifier == InitIdentifier /\ [][NextIdentifier]_vars

-----------------------------------------------------------------------------
(* _parse_identifier called on its own with a zone loaded: on raw forms    *)
(* type '/' name '/' content, the content with and without '/', and on     *)
(* other identifiers, short ones and ones without '/'.                     *)

ParseTypes == {TXT, NS, <<"A">>}

ParseNames == {OwnerW, <<"e", ".">>, <<"w">>}

ParseContents ==
    {<<"a">>, <<"a", "/", "b">>, <<"/">>, <<>>, <<"a", "/", "b", "/", "c">>,
     <<"/", "/">>, <<"a", "/">>}

OtherIdentifiers ==
    {HashOf(<<OwnerW, TXT, TxtA>>), HashOf(<<OwnerW, TXT, TxtB>>),
     <<"f", "f", "f", "f", "f", "f", "f">>, <<"a", "/", "b", "/", "c">>,
     <<"a", "b", "c", "d", "e", "a", "b", "c">>,
     <<"T", "X", "T", "/", "w", ".", "e", ".", "a">>, <<"a">>}

ParseArgs ==
    {[t |-> t, n |-> n, c |-> c, identifier |-> RawIdentifier(t, n, c),
      zone |-> z] :
        t \in ParseTypes, n \in ParseNames, c \in ParseContents,
        z \in IdentifierZones}
    \cup {[t |-> None, n |-> None, c |-> None, identifier |-> i, zone |-> z] :
              i \in OtherIdentifiers, z \in IdentifierZones}

(* A helper is about to be called on the provider as constructed. *)
InitCall(call, args) ==
    /\ Alone
    /\ options = CHOOSE o \in Options : o.action = "list"
    /\ dns = Linear(0)
    /\ backend = <<>>
    /\ pc = call
    /\ arg \in args
    /\ out = <<>>
    /\ Fresh

(* The helper has returned its value, or raised. *)
Returned(value) ==
    /\ pc' = "returned"
    /\ out' = value
    /\ UNCHANGED <<options, dns, runs, arg, robotVars, loginVars, propVars,
                   body, backend, authVars, session, zone, pageVars, retry,
                   slept, language, synced_change, prop_retry, after, result,
                   error, failedCall, attempts, opVars, closeCalls, posts,
                   lookups>>

InitParse == InitCall("parse_identifier", ParseArgs)

ParseIdentifier ==
    /\ pc = "parse_identifier"
    /\ Returned(IF ParseRaises(arg.identifier) THEN <<"IndexError">>
                ELSE _parse_identifier(arg.zone, None, arg.identifier))

NextParse == ParseIdentifier

SpecParse == InitParse /\ [][NextParse]_vars

-----------------------------------------------------------------------------
(* _wellformed_content followed by _raw_content, called on their own on    *)
(* contents with and without quotes and with and without a trailing dot.   *)

ContentTypes == {TXT, LOC, CNAME, MX, NS, SRV, <<"A">>, <<"A", "A", "A", "A">>}

ContentStrings ==
    {<<>>, <<"a">>, <<"w">>, <<"w", ".", "e">>, <<"w", ".", "e", ".">>,
     <<"x", ".">>, <<"e">>, <<".">>, <<"a", " ", "b">>,
     <<Quote, "a", Quote>>, <<Quote, "a">>, <<"a", Quote>>,
     <<"a", Quote, "b">>, <<Quote>>, <<"1", " ", "w">>,
     <<"1", " ", "x", ".">>}

ContentArgs == [t : ContentTypes, c : ContentStrings]

(* content[0] and content[-1] raise IndexError on the empty string. *)
ContentRaises(rdtype, content) ==
    /\ content = <<>>
    /\ rdtype \in {TXT, LOC, CNAME, MX, NS, SRV}

InitContent == InitCall("wellformed_content", ContentArgs)

(* out = <<wellFormed(t, c), raw(t, wellFormed(t, c))>> *)
NormalizeContent ==
    /\ pc = "wellformed_content"
    /\ Returned(IF ContentRaises(arg.t, arg.c) THEN <<"IndexError">>
                ELSE LET wf == _wellformed_content(arg.t, arg.c)
                     IN  <<wf, _raw_content(arg.t, wf)>>)

NextContent == NormalizeContent

SpecContent == InitContent /\ [][NextContent]_vars

-----------------------------------------------------------------------------
(* create_record and update_record adding an rdata to sets of every ttl:   *)
(* none, 0, and below, at and above the configured ttl.                    *)

ContentC == <<"c">>
TxtC == _wellformed_content(TXT, ContentC)

ZoneTtls == {0, 2, 3, 5}

TtlZones ==
    {<<>>, <<Rdataset(OwnerC, TXT, 0, <<TxtC>>)>>}
    \cup {<<Rdataset(OwnerW, TXT, t, items)>> :
              t \in ZoneTtls, items \in {<<TxtA>>, <<TxtC>>, <<TxtA, TxtC>>}}

TtlOptions ==
    {o \in Options :
        /\ o.action \in {"create", "update"}
        /\ o.type = TXT /\ o.name = NameW /\ o.content # None
        /\ o.live_tests = None
        /\ o.action = "update" =>
               o.identifier \in {_build_identifier(TXT, OwnerW, ContentA),
                                 RawIdentifier(TXT, OwnerW, ContentA)}}

InitTtl == InitIn(TtlOptions, {Linear(0), Linear(1)}, TtlZones)

NextTtl ==
    \/ Authenticate
    \/ DnsCname
    \/ OpenSession
    \/ ApiGet
    \/ SessionCheck
    \/ RequestHTTPError
    \/ GetZoneId
    \/ GetZone
    \/ CreateRecord
    \/ UpdateRecord
    \/ GetLanguage
    \/ PostZone
    \/ Propagated
    \/ Logout

SpecTtl == InitTtl /\ [][NextTtl]_vars

-----------------------------------------------------------------------------
(* _get_zone_id page by page, over listings of up to MaxPages pages that   *)
(* name the zone or not, with pages that are empty or repeat names, and a  *)
(* backend that answers a page past the last with an empty page, the last  *)
(* page again, or the pages from the first again.                          *)

MaxPages == 3

(* dns.name.from_text(zone_name).to_unicode(True) *)
qzone_name == Domain

(* A table of class box_title: the zone name of its title cell and the id  *)
(* _extract_zone_id_from_js finds in its onclick (False when none).        *)
Box(name, id) == [name |-> name, id |-> id]

BoxA == Box(<<"a">>, <<"1">>)
BoxB == Box(<<"b">>, <<"2">>)
BoxE == Box(qzone_name, <<"7">>)
BoxNoId == Box(qzone_name, <<"False">>)

PageContents ==
    {<<>>, <<BoxA>>, <<BoxB>>, <<BoxA, BoxB>>, <<BoxE>>, <<BoxA, BoxE>>,
     <<BoxE, BoxB>>, <<BoxNoId, BoxE>>}

Listings ==
    UNION {[1..n -> PageContents] : n \in 0..MaxPages}

ListingArgs == [listing : Listings, beyond : {"empty", "last", "cycle"}]

(* The boxes of the page the backend answers '/dns/index/page/p' with. *)
PageAt(a, p) ==
    IF p <= Len(a.listing) THEN a.listing[p]
    ELSE IF a.listing = <<>> \/ a.beyond = "empty" THEN <<>>
    ELSE IF a.beyond = "last" THEN a.listing[Len(a.listing)]
    ELSE a.listing[((p - 1) % Len(a.listing)) + 1]

(* for box in boxes: zones[zone_name] = zone_id, until the zone is named. *)
RECURSIVE ScanBoxes(_, _)
ScanBoxes(boxes, seen) ==
    IF boxes = <<>> THEN [zones |-> seen, qzone_id |-> None]
    ELSE LET box == Head(boxes)
         IN  IF box.name = qzone_name
             THEN [zones |-> seen \cup {box.name}, qzone_id |-> box.id]
             ELSE ScanBoxes(Tail(boxes), seen \cup {box.name})

(* The loop that goes on until a page adds nothing, found or not. *)
LoopsOnUntilNoGrowth(count, seen, id) == count # Cardinality(seen)

(* while (last_count != len(zones) and qzone_id is None) *)
LoopsOn(count, seen, id) == count # Cardinality(seen) /\ id = None

(* One round of the loop: last_count is set, the page requested and its    *)
(* boxes scanned, page incremented.  The test of the loop holds on entry.  *)
ZoneIdPage ==
    /\ pc = "get_zone_id"
    /\ LET scan == ScanBoxes(PageAt(arg, page), zones)
       IN  /\ zones' = scan.zones
           /\ nzones' = Cardinality(scan.zones)
           /\ qzone_id' = scan.qzone_id
    /\ last_count' = Cardinality(zones)
    /\ requested' = Append(requested, page)
    /\ page' = page + 1
    /\ pc' = "zone_id_loop"
    /\ retry' = 0
    /\ slept' = 0
    /\ UNCHANGED <<envVars, loginVars, propVars, body, backend, authVars,
                   session, zone, language, synced_change, prop_retry,
                   after, result, error, failedCall, attempts, opVars,
                   closeCalls, posts, lookups>>

(* The test of the loop after a round, and the end of _get_zone_id: it    *)
(* returns qzone_id, or closes the session and raises AssertionError.      *)
ZoneIdLoop ==
    /\ pc = "zone_id_loop"
    /\ IF LoopsOn(last_count, zones, qzone_id)
       THEN /\ pc' = "get_zone_id"
            /\ UNCHANGED <<closeCalls, retry, slept, after, result, error>>
       ELSE IF qzone_id = None
       THEN CloseSession(Raise("AssertionError"))
       ELSE /\ pc' = "returned"
            /\ UNCHANGED <<closeCalls, retry, slept, after, result, error>>
    /\ UNCHANGED <<envVars, loginVars, propVars, body, backend, authVars,
                   session, zone, pageVars, language, synced_change,
                   prop_retry, failedCall, attempts, opVars, posts,
                   lookups>>

ZoneIdOptions ==
    {o \in Options :
        /\ o.action = "list"
        /\ o.type = None /\ o.name = None /\ o.content = None
        /\ o.concatenate = "no" /\ o.propagated = "no"}

(* authenticate is about to open the session and look the zone up. *)
InitZoneId ==
    /\ Alone
    /\ options \in ZoneIdOptions
    /\ dns = Linear(0)
    /\ backend = <<>>
    /\ pc = "open_session"
    /\ arg \in ListingArgs
    /\ out = <<>>
    /\ Fresh

NextZoneId ==
    \/ OpenSession
    \/ ApiGet
    \/ SessionCheck
    \/ ZoneIdPage
    \/ ZoneIdLoop
    \/ RequestHTTPError
    \/ Logout

SpecZoneId == InitZoneId /\ [][NextZoneId]_vars

(* The run goes on as long as it has a step to take. *)
SpecZoneIdFair == SpecZoneId /\ WF_vars(NextZoneId)

-----------------------------------------------------------------------------
(* Every operation from authenticate on, with the runs in which            *)
(* _close_session is called inside authenticate: a CNAME chain beyond      *)
(* max_concats, and the list action given a hash identifier.               *)

SessionOptions ==
    {o \in AllOptions :
        /\ o.propagated = "no"
        /\ \/ /\ o.action = "list"
              /\ o.identifier \in
                     {None, _build_identifier(TXT, OwnerW, ContentA)}
              /\ o.type = None /\ o.name = None /\ o.content = None
              /\ o.concatenate = "no"
           \/ /\ o.action \in {"create", "update", "delete"}
              /\ o.type = TXT /\ o.name = NameW /\ o.content = ContentB
              /\ o.identifier =
                     IF o.action = "update"
                     THEN _build_identifier(TXT, OwnerW, ContentA)
                     ELSE None}

SessionZones == {<<>>, <<Rdataset(OwnerW, TXT, 3, <<TxtA>>)>>}

InitSession ==
    InitIn(SessionOptions, {Linear(0), Linear(1), Linear(MaxChain)},
           SessionZones)

NextSession ==
    \/ Authenticate
    \/ DnsCname
    \/ OpenSession
    \/ ApiGet
    \/ SessionCheck
    \/ RequestHTTPError
    \/ GetZoneId
    \/ GetZone
    \/ CreateRecord
    \/ UpdateRecord
    \/ DeleteRecord
    \/ ListRecords
    \/ GetLanguage
    \/ PostZone
    \/ Propagated
    \/ Logout

SpecSession == InitSession /\ [][NextSession]_vars

-----------------------------------------------------------------------------
(* Two provider objects, each with its own session, at work side by side   *)
(* on the zones of the Robot: each loads its zone in authenticate, changes *)
(* its copy and sends it with the zone-update POST.  The steps of the two  *)
(* interleave at their HTTP calls.  The record name is given in full,      *)
(* 'w.e', which _full_name leaves as it is in the zone 'e' and in the zone *)
(* 'w.e'.                                                                  *)

Procs == {1, 2}

FullW == <<"w", ".", "e">>

RobotZones == {Domain, FullW}

RobotData ==
    {<<>>,
     <<Rdataset(OwnerW, TXT, 3, <<TxtA>>)>>,
     <<Rdataset(OwnerW, TXT, 3, <<TxtA, TxtC>>)>>}

ProviderOps ==
    [action : {"create", "delete"}, identifier : {None}, type : {TXT},
     name : {FullW}, content : {ContentA, ContentB}, ttl : {3}]
    \cup [action : {"update"},
          identifier : {RawIdentifier(TXT, OwnerW, ContentA)},
          type : {None}, name : {None}, content : {ContentB}, ttl : {3}]

(* The operation of a provider on the zone it holds. *)
Operation(op, z) ==
    IF op.action = "create"
    THEN create_record(z, None, op.type, op.name, op.content, op.ttl)
    ELSE IF op.action = "update"
    THEN update_record(z, None, op.identifier, op.type, op.name, op.content,
                       op.ttl)
    ELSE delete_record(z, None, op.identifier, op.type, op.name, op.content)

(* A POST that replaces every zone of the Robot. *)
PostedToAll(held, domain, data) == [d \in DOMAIN held |-> data]

(* The Robot after an accepted POST of zone['data'] with zone['id']. *)
Posted(held, domain, data) == [held EXCEPT ![domain] = data]

InitProviders ==
    /\ providers \in
           [Procs -> [pc : {"authenticate"}, domain : RobotZones,
                      op : ProviderOps, loaded : {<<>>}, zone : {<<>>},
                      result : {"none"}]]
    /\ robot \in [RobotZones -> RobotData]
    /\ robot0 = robot
    /\ submits = <<>>
    /\ options = CHOOSE o \in Options : o.action = "list"
    /\ dns = Linear(0)
    /\ backend = <<>>
    /\ pc = "providers"
    /\ arg = <<>>
    /\ out = <<>>
    /\ Fresh

ProviderUnchanged ==
    UNCHANGED <<options, dns, runs, arg, out, loginVars, propVars, body,
                backend, authVars, session, zone, pageVars, retry, slept,
                language, synced_change, prop_retry, after, result, error,
                failedCall, attempts, opVars, closeCalls, posts, lookups, pc>>

(* authenticate: the session is opened and the zone loaded (_get_zone). *)
ProviderAuthenticate ==
    /\ \E p \in Procs :
          /\ providers[p].pc = "authenticate"
          /\ providers' =
                 [providers EXCEPT ![p].pc = "ready",
                                   ![p].loaded = robot[providers[p].domain],
                                   ![p].zone = robot[providers[p].domain]]
    /\ UNCHANGED <<robot, robot0, submits>>
    /\ ProviderUnchanged

(* create_record, update_record or delete_record up to _post_zone: the     *)
(* zone held is changed, or the operation returns without a POST.          *)
ProviderOperate ==
    /\ \E p \in Procs :
          /\ providers[p].pc = "ready"
          /\ LET r == Operation(providers[p].op, providers[p].zone)
             IN  providers' =
                     [providers EXCEPT
                          ![p].zone = r.zone,
                          ![p].pc = IF r.outcome = "submit" THEN "post_zone"
                                    ELSE "done",
                          ![p].result = IF r.outcome = "submit" THEN "none"
                                        ELSE IF r.outcome = "exists"
                                        THEN "True" ELSE "False"]
    /\ UNCHANGED <<robot, robot0, submits>>
    /\ ProviderUnchanged

(* _post_zone: the zone held is sent; the Robot takes it or rejects it. *)
ProviderPostZone ==
    /\ \E p \in Procs, accepted \in BOOLEAN :
          /\ providers[p].pc = "post_zone"
          /\ robot' = IF accepted
                      THEN Posted(robot, providers[p].domain,
                                  providers[p].zone)
                      ELSE robot
          /\ submits' =
                 Append(submits,
                        [by |-> p, domain |-> providers[p].domain,
                         data |-> providers[p].zone, accepted |-> accepted,
                         loaded |-> {q \in Procs :
                                        providers[q].pc # "authenticate"}])
          /\ providers' =
                 [providers EXCEPT
                      ![p].pc = "done",
                      ![p].result = IF accepted THEN "True" ELSE "False"]
    /\ UNCHANGED robot0
    /\ ProviderUnchanged

NextProviders ==
    \/ ProviderAuthenticate
    \/ ProviderOperate
    \/ ProviderPostZone

SpecProviders == InitProviders /\ [][NextProviders]_vars

-----------------------------------------------------------------------------
(* The operation of a run has ended: it returned or raised. *)
Ended == pc \in {"done", "raised"}

(* The operation has got as far as calling _close_session. *)
Closing == pc \in {"logout", "done", "raised"}

(* The operation is sending the zone, or has sent it. *)
Submitting == pc \in {"get_language", "post_zone", "propagated"} \/ posts > 0

(* The rdatas of z at an owner and type. *)
RdatasAt(z, owner, type) ==
    {rd \in Rdatas(z) : rd[1] = owner /\ rd[2] = type}

-----------------------------------------------------------------------------
(* C1: every create_record, update_record or delete_record on an           *)
(* authenticated provider outside live tests, however it ends (returning   *)
(* True or False, or with an error of the submit step or an HTTP call),    *)
(* has called _close_session exactly once.                                 *)
C1_ClosedExactlyOnce ==
    (/\ invoked
     /\ options.action \in {"create", "update", "delete"}
     /\ options.live_tests = None
     /\ Ended)
        => closeCalls = 1

-----------------------------------------------------------------------------
(* What the claims speak of, said without the operations' own code. *)

Hash(rd) == _build_identifier(rd[2], rd[1], _raw_content(rd[2], rd[3]))

IsHash(identifier) == Truthy(identifier) /\ Len(identifier) <= 7

(* The type, name and content an operation is given: the parts of a raw    *)
(* identifier, else the arguments.                                         *)
Given ==
    IF Truthy(options.identifier)
    THEN _parse_identifier(<<>>, None, options.identifier)
    ELSE <<options.type, options.name, options.content>>

(* An rdata is the record of this type, name and content; None stands for  *)
(* any.                                                                    *)
IsRecord(f, rd) ==
    /\ (f[1] = None \/ f[1] = rd[2])
    /\ (f[2] = None \/ (f[2] # <<>> /\ EffectiveName(cname, f[2]) = rd[1]))
    /\ (f[3] = None \/ (f[3] # <<>> /\ _wellformed_content(rd[2], f[3]) = rd[3]))

(* The rdatas of z the operation's identifier or filter f stands for. *)
Named(z, f) ==
    IF IsHash(options.identifier)
    THEN {rd \in Rdatas(z) : Hash(rd) = options.identifier}
    ELSE {rd \in Rdatas(z) : IsRecord(f, rd)}

NoDuplicates(z) ==
    \A i1, i2 \in 1..Len(z) :
        \A j1 \in 1..Len(z[i1].items), j2 \in 1..Len(z[i2].items) :
            (/\ z[i1].name = z[i2].name
             /\ z[i1].rdtype = z[i2].rdtype
             /\ z[i1].items[j1] = z[i2].items[j2])
                => (i1 = i2 /\ j1 = j2)

NoEmptyEntry(z) == \A i \in 1..Len(z) : z[i].items # <<>>

CreateGiven ==
    options.type # None /\ options.name # None /\ options.content # None

CreateRdata ==
    <<EffectiveName(cname, options.name), options.type,
      _wellformed_content(options.type, options.content)>>

-----------------------------------------------------------------------------
(* C2: create_record is idempotent.  When the rdata set at the effective   *)
(* owner name and type already holds the normalised content, it returns    *)
(* True, leaves the zone as it was and sends no zone-update POST; and      *)
(* after any sequence of create_record calls no (owner, type) set holds    *)
(* the same rdata twice.                                                   *)
C2_CreateIdempotent ==
    /\ (/\ invoked
        /\ options.action = "create"
        /\ CreateGiven
        /\ CreateRdata \in Rdatas(zone0))
           => (/\ Closing
               /\ ZoneData = zone0
               /\ backend = zone0
               /\ posts = 0
               /\ (pc = "done" => result = "True"))
    /\ NoDuplicates(ZoneData)
    /\ NoDuplicates(backend)

(* The second of two runs creates a record the first one created, and      *)
(* returns True without a POST.                                            *)
C2_Witness ==
    /\ runs = 2
    /\ options.action = "create"
    /\ pc = "done"
    /\ result = "True"
    /\ posts = 0
    /\ CreateRdata \in Rdatas(zone0)
    /\ zone0 \notin Zones

-----------------------------------------------------------------------------
(* C3: delete_record of a record that does not exist (a hash identifier    *)
(* matching no listed record, a raw identifier naming no record, a type,   *)
(* name and content matching nothing) returns True, leaves every rdata set *)
(* of the zone as it was and sends no zone-update POST.                    *)
C3_DeleteMissingIsNoop ==
    (/\ invoked
     /\ options.action = "delete"
     /\ Named(zone0, Given) = {})
        => (/\ Closing
            /\ ZoneData = zone0
            /\ posts = 0
            /\ (pc = "done" => result = "True"))

-----------------------------------------------------------------------------
(* C4: update_record returns False, leaves the zone as it was and sends no *)
(* zone-update POST when (1) the identifier matches no record, and when    *)
(* (2) the lookup by type and name finds an rdata set of more than one     *)
(* rdata and no content selects which one to replace.                      *)
UpdateByLookup ==
    /\ ~Truthy(options.identifier)
    /\ Truthy(options.type) /\ Truthy(options.name) /\ Truthy(options.content)

C4_NoMatch ==
    Truthy(options.identifier) /\ Named(zone0, Given) = {}

C4_Ambiguous ==
    /\ UpdateByLookup
    /\ Cardinality(RdatasAt(zone0, EffectiveName(cname, options.name),
                            options.type)) > 1

C4_UpdateFails ==
    (/\ invoked
     /\ options.action = "update"
     /\ (C4_NoMatch \/ C4_Ambiguous))
        => (/\ Closing
            /\ ZoneData = zone0
            /\ backend = zone0
            /\ posts = 0
            /\ (pc = "done" => result = "False"))

(* An update by type and name of a set of two rdatas has returned False. *)
C4_Witness ==
    /\ options.action = "update"
    /\ invoked
    /\ C4_Ambiguous
    /\ pc = "done"
    /\ result = "False"

-----------------------------------------------------------------------------
(* C5: the zone update_record submits is the zone before the call with     *)
(* exactly the matched rdata removed and the new normalised rdata present  *)
(* at the effective owner name and type; every rdata not matched is still  *)
(* there, and the removal comes before the insertion.                      *)

(* What update_record looks up to replace: the record of the identifier,   *)
(* else the records of type and name.                                      *)
UpdateLookup ==
    IF Truthy(options.identifier) THEN Given
    ELSE <<options.type, options.name, None>>

(* The record of the identifier, from which the arguments left out are     *)
(* taken.                                                                  *)
UpdateOld ==
    IF IsHash(options.identifier)
    THEN LET rd == CHOOSE r \in Named(zone0, UpdateLookup) : TRUE
         IN  <<rd[2], rd[1], _raw_content(rd[2], rd[3])>>
    ELSE UpdateLookup

UpdateNew ==
    LET old == UpdateOld
        type == IF Truthy(options.type) THEN options.type ELSE old[1]
        name == IF Truthy(options.name) THEN options.name ELSE old[2]
        content == IF Truthy(options.content) THEN options.content
                   ELSE old[3]
    IN  <<EffectiveName(cname, name), type,
          _wellformed_content(type, content)>>

C5_UpdateReplaces ==
    (/\ invoked
     /\ options.action = "update"
     /\ Submitting)
        => (/\ Named(zone0, UpdateLookup) # {}
            /\ Rdatas(ZoneData)
                   = (Rdatas(zone0) \ Named(zone0, UpdateLookup))
                         \cup {UpdateNew}
            /\ (synced_change = "True" => backend = ZoneData))

(* update_record submits a zone in which the rdata it replaced is the very *)
(* rdata it set, next to an rdata it had to keep.                          *)
C5_Witness ==
    /\ invoked
    /\ options.action = "update"
    /\ pc = "post_zone"
    /\ UpdateNew \in Named(zone0, UpdateLookup)
    /\ Rdatas(zone0) \ Named(zone0, UpdateLookup) # {}

-----------------------------------------------------------------------------
(* C6: delete_record removes exactly the rdata matching the given type,    *)
(* name and content, or the record the identifier resolves to.  A set in   *)
(* which other rdata remain is replaced by those, its ttl kept, else the   *)
(* (owner, type) entry goes; the rdata not matching are as they were and   *)
(* no entry is left empty.                                                 *)
TtlKept(z0, z) ==
    \A i \in 1..Len(z) :
        \E k \in 1..Len(z0) :
            /\ z0[k].name = z[i].name
            /\ z0[k].rdtype = z[i].rdtype
            /\ z0[k].ttl = z[i].ttl

C6_DeleteRemovesExactly ==
    /\ (/\ invoked
        /\ options.action = "delete"
        /\ Submitting)
           => (/\ Rdatas(ZoneData) = Rdatas(zone0) \ Named(zone0, Given)
               /\ TtlKept(zone0, ZoneData))
    /\ (options.action = "delete" => NoEmptyEntry(ZoneData))

-----------------------------------------------------------------------------
(* C7: what create_record and update_record return once they have reached  *)
(* the submit step is the submit's outcome: a propagation check without    *)
(* confirmation does not make a successful submit a failure, and no        *)
(* propagation check makes a rejected submit a success.                    *)
C7_ReturnsSubmitOutcome ==
    (/\ invoked
     /\ options.action \in {"create", "update"}
     /\ posts > 0
     /\ pc = "done")
        => /\ result = synced_change
           /\ (prop_retry = max_retry => result = "True")
           /\ (synced_change = "False" => lookups = 0 /\ result = "False")

(* The submit was confirmed, the twenty lookups found nothing, and the     *)
(* operation returned True.                                                *)
C7_Witness ==
    /\ options.action \in {"create", "update"}
    /\ pc = "done"
    /\ synced_change = "True"
    /\ prop_retry = max_retry
    /\ result = "True"

-----------------------------------------------------------------------------
(* C8: a propagation check is started only after the zone-update POST of   *)
(* the same create or update was confirmed and before the session is       *)
(* closed; never after a rejected submit, never in delete_record or        *)
(* list_records.                                                           *)
C8_PropagationOrder ==
    /\ pc = "propagated"
           => (/\ options.action \in {"create", "update"}
               /\ posts = 1
               /\ synced_change = "True"
               /\ session = "open"
               /\ closeCalls = 0)
    /\ lookups > 0
           => (/\ options.action \in {"create", "update"}
               /\ synced_change = "True")
    /\ synced_change = "False" => pc # "propagated"

(* A lookup of the propagation check is under way after a confirmed POST. *)
C8_Witness ==
    /\ pc = "propagated"
    /\ lookups > 0
    /\ posts = 1
    /\ session = "open"

-----------------------------------------------------------------------------
(* C9, as amended: every call made through _request (the zone listing, the *)
(* zone page, the language page, the zone update and the logout) is tried  *)
(* again after a ConnectionError, up to 10 tries with one sleep of a       *)
(* second between two tries, and raises ConnectionError after the 10th;    *)
(* an HTTPError is raised by the try that got it with no further try.  The *)
(* three requests of _open_session are sent once: a ConnectionError there  *)
(* is raised after one try and no sleep.                                   *)
C9_RequestRetries ==
    /\ pc \in HttpCalls => (retry < RequestAttempts /\ slept = retry)
    /\ (error = "ConnectionError" /\ failedCall \in HttpCalls)
           => (attempts = RequestAttempts /\ slept = RequestAttempts - 1)
    /\ (error = "ConnectionError" /\ failedCall \notin HttpCalls)
           => (/\ failedCall \in {"login", "login_check", "api"}
               /\ attempts = 1
               /\ slept = 0)
    /\ error = "HTTPError"
           => (failedCall \in HttpCalls /\ attempts = slept + 1)

(* The zone update has failed for the tenth time. *)
C9_Witness ==
    /\ pc = "raised"
    /\ error = "ConnectionError"
    /\ failedCall = "post_zone"
    /\ attempts = RequestAttempts
    /\ slept = RequestAttempts - 1

(* C9 as stated: every HTTP call, those that open the session included,    *)
(* raises its ConnectionError only after 10 tries.                         *)
C9_EveryCallRetried ==
    error = "ConnectionError" => attempts = RequestAttempts

-----------------------------------------------------------------------------
(* C10: _dns_cname with the CNAME lookup enabled resolves a chain of at    *)
(* most 10 hops to its last target, fails with the chain-limit error only  *)
(* on a chain of more than 10 hops, having followed 10, and ends on every  *)
(* chain, cyclic ones included.                                            *)
C10_ChainLimit ==
    /\ concat <= max_concats
    /\ (pc \notin {"authenticate", "dns_cname"} /\ dns.kind = "linear"
            /\ dns.n <= max_concats)
           => (/\ pc = "open_session"
               /\ concat = dns.n
               /\ cname = IF dns.n = 0 THEN None ELSE Target(dns.n))
    /\ (pc \notin {"authenticate", "dns_cname"}
            /\ (dns.kind = "cyclic" \/ dns.n > max_concats))
           => (pc = "raised" /\ concat = max_concats)

-----------------------------------------------------------------------------
(* C11: _open_session hands out a session only when the login_check POST   *)
(* landed on the masterdata page with status 200 and the GET to the API    *)
(* host that follows landed on the API host with status 200; on every      *)
(* other pair of responses it raises AssertionError and no session is      *)
(* stored.                                                                 *)
C11_SessionOnlyAfterLogin ==
    [][pc = "session_check"
           => IF /\ IsMasterdata(check) /\ check.status = 200
                 /\ response.url = "api" /\ response.status = 200
              THEN session' = "open" /\ pc' = "get_zone_id"
              ELSE /\ pc' = "raised"
                   /\ error' = "AssertionError"
                   /\ session' = "null"]_vars

-----------------------------------------------------------------------------
(* C12: outside live tests _close_session never raises, whatever the       *)
(* logout request comes to, and the session is null afterwards; in live    *)
(* tests it sends no logout request and leaves the session as it was.      *)
C12_CloseNeverRaises ==
    /\ failedCall # "logout"
    /\ (options.live_tests = None /\ closeCalls > 0 /\ Ended)
           => session = "null"
    /\ options.live_tests # None
           => (/\ pc # "logout"
               /\ (invoked => session = "open"))

-----------------------------------------------------------------------------
(* C13: list_records closes the session if and only if the action is       *)
(* 'list'.  Called inside update_record, delete_record or the lookup of a  *)
(* hash identifier it leaves the session open and the zone loaded, so the  *)
(* zone-update POST of the operation goes out on an open session.          *)
C13_ListClosesOnlyForList ==
    /\ (options.action = "list" /\ invoked /\ Ended) => closeCalls = 1
    /\ (options.action \in {"update", "delete"} /\ Submitting /\ posts = 0)
           => (/\ closeCalls = 0
               /\ session = "open"
               /\ zone.loaded)
    /\ (options.action \in {"update", "delete"} /\ invoked /\ closeCalls > 0)
           => Closing
    /\ pc = "post_zone" => (session = "open" /\ zone.loaded)

(* update_record has looked its record up by the hash identifier and by    *)
(* type and name, and the POST is about to go out on the open session.     *)
C13_Witness ==
    /\ options.action = "update"
    /\ IsHash(options.identifier)
    /\ pc = "post_zone"
    /\ session = "open"
    /\ closeCalls = 0

-----------------------------------------------------------------------------
(* C14, as amended: for every record r listed from the loaded zone whose   *)
(* id no other listed record shares and whose name holds no '/', the hash  *)
(* form r.id and the raw form r.type '/' r.name './' r.content are both    *)
(* resolved by _parse_identifier to (r.type, r.name '.', r.content); and   *)
(* update_record and delete_record act on that record whichever form they  *)
(* are given, as long as no CNAME found for the name stands in for it (the *)
(* raw form enables the CNAME lookup, the hash form never does).           *)

Listed(z) == list_records(z, None, None, None, None)

Triple(r) == <<r.type, r.name \o <<Dot>>, r.content>>

RawForm(r) == RawIdentifier(r.type, r.name \o <<Dot>>, r.content)

UniqueId(z, r) ==
    \A k \in 1..Len(Listed(z)) : Listed(z)[k].id = r.id => Listed(z)[k] = r

HasSlash(name) == \E i \in 1..Len(name) : name[i] = Slash

(* Both forms resolve to the record's triple, for the records wanted. *)
SameTriple(z, Wanted(_)) ==
    \A k \in 1..Len(Listed(z)) :
        LET r == Listed(z)[k]
        IN  (UniqueId(z, r) /\ Wanted(r))
                => (/\ _parse_identifier(z, cname, r.id) = Triple(r)
                    /\ _parse_identifier(z, cname, RawForm(r)) = Triple(r))

(* The rdatas of z0 the run's identifier is a form of. *)
Identified(z0) ==
    {rd \in Rdatas(z0) :
        /\ options.identifier \in {HashOf(rd), RawOf(rd)}
        /\ \A other \in Rdatas(z0) : HashOf(other) = HashOf(rd) => other = rd}

(* The operation given a form of rd's identifier submits the zone without  *)
(* rd and with nothing else missing; update_record puts its new rdata in.  *)
ActsOn(rd) ==
    /\ Submitting \/ failedCall \in {"get_language", "post_zone"}
    /\ Rdatas(ZoneData) =
           (Rdatas(zone0) \ {rd})
               \cup (IF options.action = "update" THEN {UpdateNew} ELSE {})

C14_BothFormsAmended ==
    /\ zone.loaded => SameTriple(ZoneData, LAMBDA r : ~HasSlash(r.name))
    /\ (invoked /\ options.action \in {"update", "delete"})
           => \A rd \in Identified(zone0) :
                  (~HasSlash(rd[1]) /\ ~Truthy(cname)) => ActsOn(rd)

(* delete_record was given the raw form of a record and removed it. *)
C14_Witness ==
    /\ invoked
    /\ options.action = "delete"
    /\ ~IsHash(options.identifier)
    /\ pc = "post_zone"
    /\ \E rd \in Identified(zone0) : ActsOn(rd)

(* C14 as stated: for every listed record with an id of its own, both      *)
(* forms resolve to its triple and both make update_record and             *)
(* delete_record act on it.                                                *)
C14_BothFormsSameRecord ==
    /\ zone.loaded => SameTriple(ZoneData, LAMBDA r : TRUE)
    /\ (invoked /\ options.action \in {"update", "delete"})
           => \A rd \in Identified(zone0) : ActsOn(rd)

-----------------------------------------------------------------------------
(* C15: an identifier of more than 7 characters of the form                *)
(* t '/' n '/' c, t and n without '/', is parsed into the three parts      *)
(* (t, n, c), split at its first two '/' whatever '/' c holds; an          *)
(* identifier of 7 characters or fewer is never split: it resolves to the  *)
(* triple of a listed record with that id, or to nothing.                  *)
C15_RawSplit ==
    pc = "returned"
        => /\ (arg.t # None /\ Len(arg.identifier) > 7)
                  => out = <<arg.t, arg.n, arg.c>>
           /\ Len(arg.identifier) <= 7
                  => \/ out = <<None, None, None>>
                     \/ \E k \in 1..Len(Listed(arg.zone)) :
                           /\ Listed(arg.zone)[k].id = arg.identifier
                           /\ out = Triple(Listed(arg.zone)[k])

(* A raw form whose content holds two '/' has come back in three parts. *)
C15_Witness ==
    /\ pc = "returned"
    /\ arg.identifier = RawIdentifier(TXT, OwnerW, <<"a", "/", "b", "/", "c">>)
    /\ out = <<TXT, OwnerW, <<"a", "/", "b", "/", "c">>>>

-----------------------------------------------------------------------------
(* C16: with concatenate = yes, a create, update or delete of a record of  *)
(* a type other than CNAME has the CNAME lookup enabled whenever the type  *)
(* and name, or the raw identifier, are given (an update only when the     *)
(* name stays the same); the lookup is disabled for list, for type CNAME,  *)
(* with concatenate = no and when neither a name nor a raw identifier is   *)
(* there.  Enabled and with a CNAME found, the operations use the CNAME    *)
(* target as owner name, else the FQDN of the name.                        *)

IsRaw(identifier) == Truthy(identifier) /\ Len(identifier) > 7

(* The type and the FQDN of the record the options speak of. *)
SpokenType(o) ==
    IF IsRaw(o.identifier) THEN Split(o.identifier, Slash)[1] ELSE o.type

SpokenName(o) ==
    IF IsRaw(o.identifier) THEN Split(o.identifier, Slash)[2]
    ELSE IF Truthy(o.name) THEN _fqdn_name(o.name) ELSE None

(* The name of the record to update is the name the update gives it: the   *)
(* name of the raw identifier, or of the record the hash identifier names  *)
(* in the zone.                                                            *)
NameStays(o) ==
    \/ ~Truthy(o.identifier)
    \/ ~Truthy(o.name)
    \/ /\ IsRaw(o.identifier)
       /\ Split(o.identifier, Slash)[2] = _fqdn_name(o.name)
    \/ /\ IsHash(o.identifier)
       /\ \E rd \in Rdatas(backend) :
             HashOf(rd) = o.identifier /\ rd[1] = _fqdn_name(o.name)

LookupClaimed(o) ==
    /\ o.concatenate = "yes"
    /\ o.action \in {"create", "update", "delete"}
    /\ Truthy(SpokenType(o)) /\ SpokenType(o) # CNAME
    /\ Truthy(SpokenName(o))
    /\ o.action = "update" => NameStays(o)

LookupExcluded(o) ==
    \/ o.concatenate = "no"
    \/ o.action = "list"
    \/ SpokenType(o) = CNAME
    \/ ~Truthy(o.name) /\ ~IsRaw(o.identifier)

C16_ConcatenateRule ==
    (pc # "authenticate" /\ error # "IndexError")
        => /\ LookupClaimed(options) => dname = SpokenName(options)
           /\ LookupExcluded(options) => dname = None
           /\ pc \notin {"dns_cname", "raised"}
                  => cname = IF dname # None /\ dns.n > 0
                             THEN Target(dns.n) ELSE None
           /\ (invoked /\ options.action = "create" /\ Submitting)
                  => <<(IF Truthy(cname) THEN cname
                        ELSE _fqdn_name(options.name)),
                       options.type,
                       _wellformed_content(options.type, options.content)>>
                         \in Rdatas(ZoneData)

-----------------------------------------------------------------------------
(* C17: _propagated makes at most 20 DNS lookups, returns True at the      *)
(* first lookup that holds the normalised content, sleeps 30 seconds after *)
(* every lookup that does not, returns False after the 20th of those, and  *)
(* so always ends; with the propagated option not 'yes' it makes no lookup *)
(* at all.                                                                 *)
C17_PropagatedBounded ==
    /\ lookups <= 20
    /\ prop_retry <= 20
    /\ waited = 30 * prop_retry
    /\ options.propagated # "yes" => lookups = 0
    /\ pc = "propagated" => (lookups = prop_retry /\ lookups < 20)
    /\ propagation = "True"
           => (lookups = prop_retry + 1 /\ options.propagated = "yes")
    /\ (propagation = "False" /\ options.propagated = "yes")
           => (lookups = 20 /\ prop_retry = 20 /\ waited = 600)
    /\ (propagation = "False" /\ options.propagated # "yes") => waited = 0

(* The 20th lookup has failed too and _propagated has returned False. *)
C17_Witness ==
    /\ propagation = "False"
    /\ lookups = 20
    /\ waited = 600
    /\ Closing

-----------------------------------------------------------------------------
(* C18, as amended: a create, update or delete calls the zone-update POST  *)
(* at most once, and _request sends that one request again only after a    *)
(* ConnectionError, up to 10 times in all; the submit step returns True if *)
(* and only if the confirmation text of the account's language (de_DE or   *)
(* en_GB) is in the response body; after a rejected submit the operation   *)
(* returns False and no second POST is sent.                               *)
ConfirmationText ==
    IF language = "de_DE" THEN "Vielen Dank" ELSE "Thank you for"

(* The zone-update POST requests sent so far, the one under way included. *)
PostsIssued ==
    IF pc = "post_zone" THEN retry + 1
    ELSE IF failedCall = "post_zone" THEN attempts
    ELSE posts

Confirmed == (synced_change = "True") = (body = ConfirmationText)

AfterRejection ==
    /\ pc \in {"logout", "done", "raised"}
    /\ lookups = 0
    /\ pc = "done" => result = "False"

C18_OneSubmit ==
    /\ posts <= 1
    /\ PostsIssued <= RequestAttempts
    /\ (PostsIssued > 1 /\ pc = "post_zone") => slept = retry
    /\ posts = 1
           => (invoked /\ options.action \in {"create", "update", "delete"})
    /\ (posts = 1 /\ language \in {"de_DE", "en_GB"})
           => (synced_change \in {"True", "False"} /\ Confirmed)
    /\ (posts = 1 /\ synced_change = "False") => AfterRejection

(* The backend has sent the update form back: the operation returned False *)
(* after its one POST.                                                     *)
C18_Witness ==
    /\ posts = 1
    /\ body = "form"
    /\ synced_change = "False"
    /\ pc = "done"
    /\ result = "False"

(* C18 as stated: no operation has more than one zone-update POST sent.    *)
C18_OnePostPerOperation ==
    /\ PostsIssued <= 1
    /\ (posts = 1 /\ language \in {"de_DE", "en_GB"}) => Confirmed
    /\ (posts = 1 /\ synced_change = "False") => AfterRejection

-----------------------------------------------------------------------------
(* C19 *)

HasQuote(c) == \E i \in 1..Len(c) : c[i] = Quote

RoundTrip == pc = "returned" /\ out # <<"IndexError">>

Quoted(t, c) == t \in {TXT, LOC} /\ c # <<>> /\ ~HasQuote(c)

Qualified(t) == t \in {CNAME, MX, NS, SRV}

PassThrough(t) == t \notin {TXT, LOC, CNAME, MX, NS, SRV}

(* C19, as amended: raw(wellFormed(t, c)) = c for TXT and LOC with c      *)
(* non-empty and without quotes, for the pass-through types, and for       *)
(* CNAME, MX, NS and SRV when c already ends with a dot; for CNAME, MX, NS *)
(* and SRV and a non-empty c without a trailing dot, raw leaves the        *)
(* qualified name as wellFormed made it, which ends with a dot and so is   *)
(* not c.                                                                  *)
C19_InverseWhereRawUndoes ==
    RoundTrip =>
        /\ Quoted(arg.t, arg.c) =>
               /\ out[1] = <<Quote>> \o arg.c \o <<Quote>>
               /\ out[2] = arg.c
        /\ PassThrough(arg.t) => out[1] = arg.c /\ out[2] = arg.c
        /\ Qualified(arg.t) /\ EndsWith(arg.c, <<Dot>>) =>
               out[1] = arg.c /\ out[2] = arg.c
        /\ Qualified(arg.t) /\ ~EndsWith(arg.c, <<Dot>>) =>
               /\ out[2] = out[1]
               /\ EndsWith(out[2], <<Dot>>)
               /\ out[2] # arg.c

(* The round trip has been made for a qualified type on a content without *)
(* a trailing dot: 'w' comes back as the qualified name 'w.e.'.            *)
C19_Witness ==
    /\ RoundTrip
    /\ Qualified(arg.t)
    /\ arg.c = <<"w">>
    /\ out = <<_fqdn_name(<<"w">>), _fqdn_name(<<"w">>)>>

(* C19: raw(wellFormed(t, c)) = c for every supported type: TXT and LOC    *)
(* (c non-empty, without quotes), CNAME, MX, NS and SRV (c without a       *)
(* trailing dot) and the pass-through types.                               *)
C19_InverseConsistent ==
    (/\ RoundTrip
     /\ \/ Quoted(arg.t, arg.c)
        \/ Qualified(arg.t) /\ ~EndsWith(arg.c, <<Dot>>)
        \/ PassThrough(arg.t))
    => out[2] = arg.c

-----------------------------------------------------------------------------
(* C20 *)

(* The set the operation adds its rdata to, and the rdata. *)
AddedOwner == EffectiveName(cname, options.name)

AddedRdata ==
    <<AddedOwner, options.type,
      _wellformed_content(options.type, options.content)>>

(* create_record or update_record has added its rdata to the set. *)
HasAdded ==
    /\ Submitting
    /\ options.action \in {"create", "update"}
    /\ AddedRdata \notin Rdatas(zone0)
    /\ AddedRdata \in Rdatas(ZoneData)

(* The rdatas the set held when the new one was added to it. *)
Previous == RdatasAt(ZoneData, AddedOwner, options.type) \ {AddedRdata}

TtlAt(z, owner, type) == z[FindRdataset(z, owner, type)].ttl

PreviousTtl == TtlAt(zone0, AddedOwner, options.type)

(* C20: when create_record or update_record adds a new rdata to a set, the *)
(* set's ttl afterwards is its previous ttl if that is above 0 and below   *)
(* the configured ttl, and the configured ttl in every other case: empty   *)
(* set, previous ttl 0, previous ttl at or above the configured ttl.       *)
C20_TtlAfterAdd ==
    HasAdded =>
        TtlAt(ZoneData, AddedOwner, options.type)
            = IF /\ Previous # {}
                 /\ PreviousTtl > 0
                 /\ PreviousTtl < options.ttl
              THEN PreviousTtl
              ELSE options.ttl

-----------------------------------------------------------------------------
(* C21 *)

BoxNames(boxes) == {boxes[i].name : i \in 1..Len(boxes)}

(* The zone names on the pages before page p. *)
SeenBefore(p) == UNION {BoxNames(PageAt(arg, q)) : q \in 1..(p - 1)}

(* Page p names the zone, or adds no name to those of the pages before. *)
StopsAt(p) ==
    \/ qzone_name \in BoxNames(PageAt(arg, p))
    \/ BoxNames(PageAt(arg, p)) \subseteq SeenBefore(p)

(* The first such page. *)
StopPage ==
    CHOOSE p \in 1..(Len(arg.listing) + 1) :
        StopsAt(p) /\ \A q \in 1..(p - 1) : ~StopsAt(q)

(* The id of the first box of the stop page that names the zone. *)
StopId ==
    LET boxes == PageAt(arg, StopPage)
        i == CHOOSE k \in 1..Len(boxes) :
                 /\ boxes[k].name = qzone_name
                 /\ \A j \in 1..(k - 1) : boxes[j].name # qzone_name
    IN  boxes[i].id

ZoneNamed == qzone_name \in BoxNames(PageAt(arg, StopPage))

InLookup == pc \in {"get_zone_id", "zone_id_loop"}

(* _get_zone_id has returned, or has gone on to close the session. *)
LookupOver == requested # <<>> /\ ~InLookup /\ failedCall # "get_zone_id"

(* C21: _get_zone_id requests the listing pages 1, 2, 3, ... in order and  *)
(* stops at the first page that names the zone, returning its id, or adds  *)
(* no new zone name to those seen; in the second case it calls             *)
(* _close_session and raises AssertionError.  Over a backend that lists    *)
(* finitely many zones the lookup ends.                                    *)
C21_ZoneIdLookup ==
    /\ [](/\ requested = [i \in 1..Len(requested) |-> i]
          /\ Len(requested) <= StopPage
          /\ InLookup => page = Len(requested) + 1
          /\ LookupOver =>
                 /\ Len(requested) = StopPage
                 /\ IF ZoneNamed
                    THEN pc = "returned" /\ qzone_id = StopId
                    ELSE /\ qzone_id = None
                         /\ closeCalls = 1
                         /\ pc \in {"logout", "raised"})
    /\ [][(/\ pc = "zone_id_loop"
           /\ Len(requested) = StopPage
           /\ ~ZoneNamed)
          => /\ closeCalls' = closeCalls + 1
             /\ IF options.live_tests = None
                THEN pc' = "logout" /\ after' = Raise("AssertionError")
                ELSE pc' = "raised" /\ error' = "AssertionError"]_vars
    /\ <>(pc \in {"returned", "raised"})

(* The lookup has ended without the zone after the backend began to repeat *)
(* its two pages: three pages were requested.                              *)
C21_Witness ==
    /\ LookupOver
    /\ arg.beyond = "cycle"
    /\ Len(arg.listing) = 2
    /\ requested = <<1, 2, 3>>
    /\ qzone_id = None
    /\ pc = "raised"
    /\ error = "AssertionError"

-----------------------------------------------------------------------------
(* C22 *)

(* C22: no backend HTTP request, the logout GET of _close_session          *)
(* included, is under way while self.session is None: _close_session is    *)
(* called neither before _open_session has succeeded nor after the session *)
(* was closed.                                                             *)
C22_NoRequestWithoutSession ==
    /\ [](pc \in HttpCalls => session = "open")
    /\ [][closeCalls' = closeCalls + 1 => session = "open"]_vars

-----------------------------------------------------------------------------
(* C23 *)

(* The rdata an operation names. *)
OpRdata(op) == <<OwnerW, TXT, _wellformed_content(TXT, op.content)>>

(* The records a zone with the records rds has after the operation alone. *)
Changed(op, rds) ==
    IF op.action = "create" THEN rds \cup {OpRdata(op)}
    ELSE IF op.action = "delete" THEN rds \ {OpRdata(op)}
    ELSE IF <<OwnerW, TXT, TxtA>> \in rds
    THEN (rds \ {<<OwnerW, TXT, TxtA>>}) \cup {OpRdata(op)}
    ELSE rds

(* The accepted POSTs for a zone, as indexes of submits. *)
AcceptedFor(d) ==
    {i \in 1..Len(submits) : submits[i].domain = d /\ submits[i].accepted}

LastAcceptedFor(d) ==
    CHOOSE i \in AcceptedFor(d) : \A j \in AcceptedFor(d) : j <= i

(* Both providers had loaded the same zone before either sent it, and both *)
(* POSTs were accepted.                                                    *)
Interleaved ==
    /\ Len(submits) = 2
    /\ submits[1].domain = submits[2].domain
    /\ submits[1].accepted /\ submits[2].accepted
    /\ submits[1].loaded = Procs

(* C23: the zone a provider submits is the zone it loaded in authenticate  *)
(* with only its own operation's change; the Robot holds for each zone the *)
(* data of the last accepted POST for that zone and is untouched by POSTs  *)
(* for other zones; so when two providers load the same zone and then both *)
(* submit, the zone ends as the one submitted last, which is the zone      *)
(* loaded with the second operation's change alone: nothing the first      *)
(* submitted is kept.                                                      *)
C23_LastSubmitWins ==
    /\ [](/\ \A i \in 1..Len(submits) :
                LET pr == providers[submits[i].by]
                IN  /\ submits[i].data = pr.zone
                    /\ Rdatas(submits[i].data)
                           = Changed(pr.op, Rdatas(pr.loaded))
          /\ \A d \in RobotZones :
                robot[d] = IF AcceptedFor(d) = {} THEN robot0[d]
                           ELSE submits[LastAcceptedFor(d)].data
          /\ Interleaved =>
                 LET d == submits[2].domain
                 IN  /\ robot[d] = submits[2].data
                     /\ Rdatas(robot[d])
                            = Changed(providers[submits[2].by].op,
                                      Rdatas(robot0[d])))
    /\ [][\A p \in Procs :
              (providers[p].pc = "authenticate"
               /\ providers'[p].pc # "authenticate")
              => providers'[p].loaded = robot[providers[p].domain]]_vars

(* Two providers loaded the zone 'w.e. TXT "a"'; one created "b" and the   *)
(* other then deleted "a": the zone ends empty, the "b" submitted first is *)
(* gone.                                                                   *)
C23_Witness ==
    /\ Interleaved
    /\ providers[submits[1].by].op.action = "create"
    /\ providers[submits[2].by].op.action = "delete"
    /\ LET first == OpRdata(providers[submits[1].by].op)
           d == submits[1].domain
       IN  /\ first \in Rdatas(submits[1].data)
           /\ first \notin Rdatas(robot0[d])
           /\ first \notin Rdatas(robot[d])
           /\ robot[d] = <<>>

=============================================================================
